---- MODULE Spec2Model ----
(***************************************************************************)
(* Crypto news parser: the rule-based classifier (parser.py), the /parse,  *)
(* /feedback and /parse_url handlers around it (main.py, llm_adapter.py),  *)
(* the sqlite store (storage.py) and the URL fetcher (fetch.py).           *)
(*                                                                         *)
(* A text is a sequence of phrases of a fixed vocabulary, joined by single *)
(* spaces.  What the Python code computes on one phrase (substring tests   *)
(* on the lower-cased text, regex searches, ticker matches, entity tokens) *)
(* is tabulated per phrase by tools/gen_tables.py, which runs the parser's *)
(* own regexes and helpers; the vocabulary is chosen so that joining two   *)
(* phrases creates no match that neither phrase has on its own.            *)
(* Scores are in hundredths (0.74 is 74).                                  *)
(***************************************************************************)
EXTENDS Integers, Sequences, FiniteSets, TLC

\* ------------------------------------------------------------------ bounds
\* Longest text, in phrases, given to the pure classifier functions.
MaxWords == 2

\* ------------------------------------------------------- vocabulary tables
Vocab ==
    { "hack", "lawsuit", "SEC", "tokenized",
    "burn", "wallet", "liquidity", "partnership",
    "revenue", "Bitcoin", "BTC", "Solana",
    "BlackRock", "breakfast", "upgrade", "stablecoin",
    "launched", "treasury", "yield", "listed on",
    "stablecoin halted", "exchange options" }

ExtraVocab ==
    { "SEC fined", "guidance", "cbdc", "ipo",
    "raised", "bought", "plunge", "testnet release v2",
    "validators dropped", "its mainnet launch", "reserves", "staking apr",
    "lending rate", "accepts payments", "CEO", "pivot",
    "settled", "banned", "probe", "c&d",
    "exploit", "breach", "EU", "Canada",
    "Japan", "Australia", "Kenya", "€5",
    "BlackRock said", "Ethereum developers", "hard fork", "for mainnet." }

Contains ==
    { <<"accept", "accepts payments">>, <<"apr", "staking apr">>, <<"ban", "banned">>,
    <<"banned", "banned">>, <<"bitcoin", "Bitcoin">>, <<"bought", "bought">>,
    <<"breach", "breach">>, <<"btc", "BTC">>, <<"burn", "burn">>,
    <<"c&d", "c&d">>, <<"cbdc", "cbdc">>, <<"ceo", "CEO">>,
    <<"drop", "validators dropped">>, <<"dropped", "validators dropped">>, <<"eth", "Ethereum developers">>,
    <<"ethereum", "Ethereum developers">>, <<"exchange", "exchange options">>, <<"exploit", "exploit">>,
    <<"fine", "SEC fined">>, <<"fined", "SEC fined">>, <<"for", "hard fork">>,
    <<"for", "for mainnet.">>, <<"fork", "hard fork">>, <<"guidance", "guidance">>,
    <<"hack", "hack">>, <<"halt", "stablecoin halted">>, <<"halted", "stablecoin halted">>,
    <<"hard fork", "hard fork">>, <<"ipo", "ipo">>, <<"launch", "launched">>,
    <<"launch", "its mainnet launch">>, <<"launched", "launched">>, <<"lawsuit", "lawsuit">>,
    <<"liquidity", "liquidity">>, <<"listed", "listed on">>, <<"listed on", "listed on">>,
    <<"mainnet", "its mainnet launch">>, <<"mainnet", "for mainnet.">>, <<"mainnet launch", "its mainnet launch">>,
    <<"options", "exchange options">>, <<"partnership", "partnership">>, <<"payment", "accepts payments">>,
    <<"payments", "accepts payments">>, <<"pivot", "pivot">>, <<"plunge", "plunge">>,
    <<"probe", "probe">>, <<"raise", "raised">>, <<"raised", "raised">>,
    <<"reserve", "reserves">>, <<"reserves", "reserves">>, <<"revenue", "revenue">>,
    <<"sec", "SEC">>, <<"sec", "SEC fined">>, <<"settled", "settled">>,
    <<"stablecoin", "stablecoin">>, <<"stablecoin", "stablecoin halted">>, <<"staking", "staking apr">>,
    <<"testnet", "testnet release v2">>, <<"the", "Ethereum developers">>, <<"token", "tokenized">>,
    <<"tokenized", "tokenized">>, <<"treasury", "treasury">>, <<"upgrade", "upgrade">>,
    <<"v2", "testnet release v2">>, <<"validator", "validators dropped">>, <<"validators", "validators dropped">>,
    <<"wallet", "wallet">>, <<"yield", "yield">>, <<"€", "€5">> }

RegexHits ==
    { <<"\\blisted\\s+on\\b", "listed on">>, <<"\\brelease\\s+v?\\d+(?:\\.\\d+)*\\b", "testnet release v2">>,
    <<"\\b(interest|borrow|lending|deposit|funding)\\s+rate(s)?\\b", "lending rate">>, <<"\\b(lawsuit|sue|sues|sued)\\b", "lawsuit">>,
    <<"\\bsec\\b", "SEC">>, <<"\\bsec\\b", "SEC fined">>,
    <<"\\beu\\b", "EU">>, <<"\\bcanada\\b", "Canada">>,
    <<"\\bjapan\\b", "Japan">>, <<"\\baustralia\\b", "Australia">>,
    <<"\\bkenya\\b", "Kenya">> }

NameHits ==
    { <<1, "Bitcoin">>, <<2, "Ethereum developers">>, <<4, "Solana">> }

TickerTokens ==
    "hack" :> <<>> @@
    "lawsuit" :> <<>> @@
    "SEC" :> <<"SEC">> @@
    "tokenized" :> <<>> @@
    "burn" :> <<>> @@
    "wallet" :> <<>> @@
    "liquidity" :> <<>> @@
    "partnership" :> <<>> @@
    "revenue" :> <<>> @@
    "Bitcoin" :> <<>> @@
    "BTC" :> <<"BTC">> @@
    "Solana" :> <<>> @@
    "BlackRock" :> <<>> @@
    "breakfast" :> <<>> @@
    "upgrade" :> <<>> @@
    "stablecoin" :> <<>> @@
    "launched" :> <<>> @@
    "treasury" :> <<>> @@
    "yield" :> <<>> @@
    "listed on" :> <<>> @@
    "stablecoin halted" :> <<>> @@
    "exchange options" :> <<>> @@
    "SEC fined" :> <<"SEC">> @@
    "guidance" :> <<>> @@
    "cbdc" :> <<>> @@
    "ipo" :> <<>> @@
    "raised" :> <<>> @@
    "bought" :> <<>> @@
    "plunge" :> <<>> @@
    "testnet release v2" :> <<>> @@
    "validators dropped" :> <<>> @@
    "its mainnet launch" :> <<>> @@
    "reserves" :> <<>> @@
    "staking apr" :> <<>> @@
    "lending rate" :> <<>> @@
    "accepts payments" :> <<>> @@
    "CEO" :> <<"CEO">> @@
    "pivot" :> <<>> @@
    "settled" :> <<>> @@
    "banned" :> <<>> @@
    "probe" :> <<>> @@
    "c&d" :> <<>> @@
    "exploit" :> <<>> @@
    "breach" :> <<>> @@
    "EU" :> <<"EU">> @@
    "Canada" :> <<>> @@
    "Japan" :> <<>> @@
    "Australia" :> <<>> @@
    "Kenya" :> <<>> @@
    "€5" :> <<>> @@
    "BlackRock said" :> <<>> @@
    "Ethereum developers" :> <<>> @@
    "hard fork" :> <<>> @@
    "for mainnet." :> <<>>

EntityTokens ==
    "hack" :> <<"hack">> @@
    "lawsuit" :> <<"lawsuit">> @@
    "SEC" :> <<"SEC">> @@
    "tokenized" :> <<"tokenized">> @@
    "burn" :> <<"burn">> @@
    "wallet" :> <<"wallet">> @@
    "liquidity" :> <<"liquidity">> @@
    "partnership" :> <<"partnership">> @@
    "revenue" :> <<"revenue">> @@
    "Bitcoin" :> <<"Bitcoin">> @@
    "BTC" :> <<"BTC">> @@
    "Solana" :> <<"Solana">> @@
    "BlackRock" :> <<"BlackRock">> @@
    "breakfast" :> <<"breakfast">> @@
    "upgrade" :> <<"upgrade">> @@
    "stablecoin" :> <<"stablecoin">> @@
    "launched" :> <<"launched">> @@
    "treasury" :> <<"treasury">> @@
    "yield" :> <<"yield">> @@
    "listed on" :> <<"listed", "on">> @@
    "stablecoin halted" :> <<"stablecoin", "halted">> @@
    "exchange options" :> <<"exchange", "options">> @@
    "SEC fined" :> <<"SEC", "fined">> @@
    "guidance" :> <<"guidance">> @@
    "cbdc" :> <<"cbdc">> @@
    "ipo" :> <<"ipo">> @@
    "raised" :> <<"raised">> @@
    "bought" :> <<"bought">> @@
    "plunge" :> <<"plunge">> @@
    "testnet release v2" :> <<"testnet", "release", "v2">> @@
    "validators dropped" :> <<"validators", "dropped">> @@
    "its mainnet launch" :> <<"its", "mainnet", "launch">> @@
    "reserves" :> <<"reserves">> @@
    "staking apr" :> <<"staking", "apr">> @@
    "lending rate" :> <<"lending", "rate">> @@
    "accepts payments" :> <<"accepts", "payments">> @@
    "CEO" :> <<"CEO">> @@
    "pivot" :> <<"pivot">> @@
    "settled" :> <<"settled">> @@
    "banned" :> <<"banned">> @@
    "probe" :> <<"probe">> @@
    "c&d" :> <<"c", "d">> @@
    "exploit" :> <<"exploit">> @@
    "breach" :> <<"breach">> @@
    "EU" :> <<"EU">> @@
    "Canada" :> <<"Canada">> @@
    "Japan" :> <<"Japan">> @@
    "Australia" :> <<"Australia">> @@
    "Kenya" :> <<"Kenya">> @@
    "€5" :> <<>> @@
    "BlackRock said" :> <<"BlackRock", "said">> @@
    "Ethereum developers" :> <<"Ethereum", "developers">> @@
    "hard fork" :> <<"hard", "fork">> @@
    "for mainnet." :> <<"for", "mainnet">>

TitleTokens ==
    { "Australia", "Bitcoin", "BlackRock", "Canada",
    "Ethereum", "Japan", "Kenya", "Solana" }

AllcapsTokens ==
    { "BTC", "CEO", "EU", "SEC" }

ConnectorTokens ==
    { "for" }

EuroSign ==
    { "€5" }

PhraseLen ==
    "hack" :> 4 @@
    "lawsuit" :> 7 @@
    "SEC" :> 3 @@
    "tokenized" :> 9 @@
    "burn" :> 4 @@
    "wallet" :> 6 @@
    "liquidity" :> 9 @@
    "partnership" :> 11 @@
    "revenue" :> 7 @@
    "Bitcoin" :> 7 @@
    "BTC" :> 3 @@
    "Solana" :> 6 @@
    "BlackRock" :> 9 @@
    "breakfast" :> 9 @@
    "upgrade" :> 7 @@
    "stablecoin" :> 10 @@
    "launched" :> 8 @@
    "treasury" :> 8 @@
    "yield" :> 5 @@
    "listed on" :> 9 @@
    "stablecoin halted" :> 17 @@
    "exchange options" :> 16 @@
    "SEC fined" :> 9 @@
    "guidance" :> 8 @@
    "cbdc" :> 4 @@
    "ipo" :> 3 @@
    "raised" :> 6 @@
    "bought" :> 6 @@
    "plunge" :> 6 @@
    "testnet release v2" :> 18 @@
    "validators dropped" :> 18 @@
    "its mainnet launch" :> 18 @@
    "reserves" :> 8 @@
    "staking apr" :> 11 @@
    "lending rate" :> 12 @@
    "accepts payments" :> 16 @@
    "CEO" :> 3 @@
    "pivot" :> 5 @@
    "settled" :> 7 @@
    "banned" :> 6 @@
    "probe" :> 5 @@
    "c&d" :> 3 @@
    "exploit" :> 7 @@
    "breach" :> 6 @@
    "EU" :> 2 @@
    "Canada" :> 6 @@
    "Japan" :> 5 @@
    "Australia" :> 9 @@
    "Kenya" :> 5 @@
    "€5" :> 2 @@
    "BlackRock said" :> 14 @@
    "Ethereum developers" :> 19 @@
    "hard fork" :> 9 @@
    "for mainnet." :> 12

\* ------------------------------------------------------------------- texts
\* models.py: MAX_TEXT_LENGTH
MAX_TEXT_LENGTH == 20000

\* A text holds its phrases and a size class: "base" is the phrases alone,
\* "max" and "over" are the phrases followed by filler dots up to
\* MAX_TEXT_LENGTH and MAX_TEXT_LENGTH + 1 characters.
Sizes == {"base", "max", "over"}

RECURSIVE SeqsUpTo(_, _)
SeqsUpTo(S, n) ==
    IF n = 0 THEN { <<>> }
    ELSE LET shorter == SeqsUpTo(S, n - 1)
         IN  shorter \cup { Append(s, x) : s \in { u \in shorter : Len(u) = n - 1 }, x \in S }

Range(s) == { s[i] : i \in DOMAIN s }

NoRepeat(s) == Cardinality(Range(s)) = Len(s)

PhraseSeqs(n) == { s \in SeqsUpTo(Vocab, n) : NoRepeat(s) }

Text(words, size) == [words |-> words, size |-> size]

RECURSIVE BaseLen(_)
BaseLen(words) ==
    IF words = <<>> THEN 0
    ELSE PhraseLen[Head(words)] + (IF Len(words) > 1 THEN 1 ELSE 0) + BaseLen(Tail(words))

\* len(text) of the stripped text
TextLen(text) ==
    IF text.words = <<>> THEN 0
    ELSE CASE text.size = "base" -> BaseLen(text.words)
           [] text.size = "max"  -> MAX_TEXT_LENGTH
           [] text.size = "over" -> MAX_TEXT_LENGTH + 1

\* `w in t` with t = text.lower()
Has(text, w) == \E i \in DOMAIN text.words : <<w, text.words[i]>> \in Contains

\* any(w in t for w in ws)
AnyIn(text, ws) == \E w \in ws : Has(text, w)

\* re.search(rx, t) is not None
Search(text, rx) == \E i \in DOMAIN text.words : <<rx, text.words[i]>> \in RegexHits

\* ---------------------------------------------------------------- taxonomy
EventType ==
    { "UNKNOWN", "MISC_OTHER",
      "REGULATORY_ACTION_ENFORCEMENT", "LEGISLATION_POLICY_DEVELOPMENT",
      "GOVERNMENT_CENTRAL_BANK_INITIATIVES",
      "INSTITUTIONAL_ADOPTION_STRATEGY", "CAPITAL_MARKETS_ACTIVITY",
      "FUNDING_INVESTMENT_MA", "MARKET_STRUCTURE_LIQUIDITY_SHIFTS",
      "COMPANY_FINANCIAL_PERFORMANCE", "CORPORATE_GOVERNANCE_LEADERSHIP_CHANGES",
      "BUSINESS_MODEL_STRATEGIC_PIVOT",
      "PROTOCOL_UPGRADES_NETWORK_CHANGES", "NEW_PROTOCOL_PRODUCT_LAUNCHES",
      "INTEROPERABILITY_INFRA_DEVELOPMENTS", "SECURITY_INCIDENTS_EXPLOITS",
      "TOKEN_ECONOMICS_SUPPLY_EVENTS", "STABLECOINS_MONETARY_MECHANICS",
      "YIELD_RATES_RETURN_DYNAMICS",
      "RWA_DEVELOPMENTS", "PAYMENTS_COMMERCE_CONSUMER_ADOPTION",
      "ECOSYSTEM_PARTNERSHIPS_INTEGRATIONS" }

CandidateEvent(event_type, confidence, impact_score) ==
    [event_type |-> event_type, confidence |-> confidence, impact_score |-> impact_score]

_PRECEDENCE ==
    [e \in EventType |->
        CASE e = "SECURITY_INCIDENTS_EXPLOITS" -> 1
          [] e = "REGULATORY_ACTION_ENFORCEMENT" -> 2
          [] e = "STABLECOINS_MONETARY_MECHANICS" -> 3
          [] e = "PROTOCOL_UPGRADES_NETWORK_CHANGES" -> 4
          [] e = "CAPITAL_MARKETS_ACTIVITY" -> 5
          [] e = "MARKET_STRUCTURE_LIQUIDITY_SHIFTS" -> 6
          [] e = "FUNDING_INVESTMENT_MA" -> 7
          [] e = "INSTITUTIONAL_ADOPTION_STRATEGY" -> 8
          [] e = "NEW_PROTOCOL_PRODUCT_LAUNCHES" -> 9
          [] e = "INTEROPERABILITY_INFRA_DEVELOPMENTS" -> 10
          [] e = "RWA_DEVELOPMENTS" -> 11
          [] e = "PAYMENTS_COMMERCE_CONSUMER_ADOPTION" -> 12
          [] e = "ECOSYSTEM_PARTNERSHIPS_INTEGRATIONS" -> 13
          [] e = "LEGISLATION_POLICY_DEVELOPMENT" -> 14
          [] e = "GOVERNMENT_CENTRAL_BANK_INITIATIVES" -> 15
          [] e = "COMPANY_FINANCIAL_PERFORMANCE" -> 16
          [] e = "CORPORATE_GOVERNANCE_LEADERSHIP_CHANGES" -> 17
          [] e = "BUSINESS_MODEL_STRATEGIC_PIVOT" -> 18
          [] e = "TOKEN_ECONOMICS_SUPPLY_EVENTS" -> 19
          [] e = "YIELD_RATES_RETURN_DYNAMICS" -> 20
          [] e = "MISC_OTHER" -> 98
          [] e = "UNKNOWN" -> 99]

\* ------------------------------------------------------------------ assets
_ASSET_ALLOWLIST ==
    { "BTC", "ETH", "SOL", "XRP", "BNB", "ADA", "DOGE", "LTC",
      "AVAX", "DOT", "LINK", "UNI", "AAVE", "USDT", "USDC" }

\* the ticker of each name pattern, in the order of the pattern list
_ASSET_NAME_PATTERNS == <<"BTC", "ETH", "ETH", "SOL", "USDT", "USDC">>

\* Faulty variant: `seen.add(a)` is missing.
Dedupe_seen_not_updated(s, seen) == SelectSeq(s, LAMBDA a : a \notin seen)

\* de-dupe preserving order
RECURSIVE Dedupe(_, _)
Dedupe(s, seen) ==
    IF s = <<>> THEN <<>>
    ELSE IF Head(s) \in seen THEN Dedupe(Tail(s), seen)
         ELSE <<Head(s)>> \o Dedupe(Tail(s), seen \cup {Head(s)})

RECURSIVE NamePass(_, _)
NamePass(text, k) ==
    IF k > Len(_ASSET_NAME_PATTERNS) THEN <<>>
    ELSE (IF \E i \in DOMAIN text.words : <<k, text.words[i]>> \in NameHits
          THEN <<_ASSET_NAME_PATTERNS[k]>> ELSE <<>>) \o NamePass(text, k + 1)

\* Faulty variant: every token _TICKER_RE matches is taken, allowlisted or not.
RECURSIVE TickerPass_any_token(_)
TickerPass_any_token(words) ==
    IF words = <<>> THEN <<>>
    ELSE TickerTokens[Head(words)] \o TickerPass_any_token(Tail(words))

RECURSIVE TickerPass(_)
TickerPass(words) ==
    IF words = <<>> THEN <<>>
    ELSE LET InAllowlist(token) == token \in _ASSET_ALLOWLIST
         IN  SelectSeq(TickerTokens[Head(words)], InAllowlist) \o TickerPass(Tail(words))

extract_assets(text) == Dedupe(NamePass(text, 1) \o TickerPass(text.words), {})

crypto_cues ==
    { "crypto", "cryptocurrency", "blockchain", "bitcoin", "ethereum", "stablecoin",
      "cbdc", "central bank digital currency", "token", "defi", "exchange", "wallet",
      "web3", "onchain", "mainnet", "testnet", "devnet", "layer-1", "layer 1",
      "layer-2", "layer 2", "staking", "validator" }

\* Faulty variant: the extracted assets are not looked at.
_is_crypto_related_cues_only(text) == AnyIn(text, crypto_cues)

_is_crypto_related(text) ==
    \/ AnyIn(text, crypto_cues)
    \/ \E ticker \in _ASSET_ALLOWLIST : ticker \in Range(extract_assets(text))

\* ------------------------------------------------------ candidate generator
regulators == { "sec", "cftc", "doj", "finra", "fca", "esma", "ofac", "regulator" }

enforcement_words ==
    { "lawsuit", "sues", "sued", "charges", "charged", "indict", "indicted", "fine",
      "penalty", "settlement", "investigation", "probe", "cease and desist",
      "cease-and-desist", "c&d" }

policy_words ==
    { "draft bill", "consultation", "executive order", "policy framework", "framework",
      "guidance", "clarified", "clarifies", "rules", "hearing", "roundtable", "summit",
      "meeting" }

has_legislation_language(text) ==
    \/ AnyIn(text, policy_words)
    \/ /\ Search(text, "\\b(draft\\s+)?bill(s)?\\b")
       /\ ~Search(text, "\\b(treasury\\s+bill(s)?|t-?bill(s)?|tbill(s)?)\\b")

gov_words ==
    { "cbdc", "central bank digital currency", "tokenization pilot", "public-sector",
      "public sector", "treasury", "ministry", "central bank" }

institution_words ==
    { "bank", "asset manager", "asset management", "custody", "custodian", "corporate",
      "treasury" }

purchase_words == { "purchased", "purchase", "buys", "bought", "acquired", "added" }

volatility_words ==
    { "volatility", "sell-off", "selloff", "plunge", "dump", "rally", "surge", "crash" }

exchange_product_words ==
    { "product", "launched", "roll out", "rolled out", "derivatives", "options" }

payment_terms ==
    { "payments", "payment", "merchant", "commerce", "remittance", "payment rails",
      "checkout" }

payment_actions ==
    { "enabled", "enable", "allowing", "allow", "pay with", "accept", "accepted",
      "payout", "payouts", "settlement", "transfers", "transfer" }

\* Faulty variant: the two scores are passed in each other's place.
add_scores_swapped(cond, event_type, confidence, impact_score) ==
    IF cond THEN << CandidateEvent(event_type, impact_score, confidence) >> ELSE <<>>

\* Faulty variant: the impact score is written as a percentage.
add_impact_as_percentage(cond, event_type, confidence, impact_score) ==
    IF cond THEN << CandidateEvent(event_type, confidence, impact_score * 100) >> ELSE <<>>

\* one rule of _candidates: `if cond: add(event_type, confidence, impact_score)`
add(cond, event_type, confidence, impact_score) ==
    IF cond THEN << CandidateEvent(event_type, confidence, impact_score) >> ELSE <<>>

\* The rules in source order; the list is built by appending, rule after rule.
_candidates(text) ==
    add(AnyIn(text, {"hack", "exploit", "breach", "bug", "drained", "compromised"}),
        "SECURITY_INCIDENTS_EXPLOITS", 74, 90)
    \o add(AnyIn(text, enforcement_words) /\ AnyIn(text, regulators),
        "REGULATORY_ACTION_ENFORCEMENT", 72, 85)
    \o add(has_legislation_language(text)
             /\ (_is_crypto_related(text) \/ AnyIn(text, regulators)),
        "LEGISLATION_POLICY_DEVELOPMENT", 66, 65)
    \o add(AnyIn(text, gov_words) /\ _is_crypto_related(text),
        "GOVERNMENT_CENTRAL_BANK_INITIATIVES", 62, 60)
    \o add(AnyIn(text, {"ipo", "spac", "public offering", "market debut"}),
        "CAPITAL_MARKETS_ACTIVITY", 66, 60)
    \o add(\/ AnyIn(text, {"listing", "delist", "delisted", "delisting"})
           \/ Search(text, "\\blisted\\s+on\\b")
           \/ Search(text, "\\b(up-list|uplisting|up listing)\\b"),
        "CAPITAL_MARKETS_ACTIVITY", 60, 55)
    \o add(AnyIn(text, {"series a", "series b", "series c", "funding round", "raised",
                        "raise", "seed round", "venture", "strategic investment",
                        "invested", "investment", "acquired", "acquisition", "merge",
                        "merged", "merger"}),
        "FUNDING_INVESTMENT_MA", 64, 60)
    \o add(_is_crypto_related(text) /\ AnyIn(text, institution_words),
        "INSTITUTIONAL_ADOPTION_STRATEGY", 58, 55)
    \o add((Has(text, "bitcoin") \/ Has(text, "btc")) /\ AnyIn(text, purchase_words),
        "INSTITUTIONAL_ADOPTION_STRATEGY", 62, 60)
    \o add(AnyIn(text, {"tvl", "total value locked", "liquidity", "market share", "flows",
                        "inflow", "outflow"}),
        "MARKET_STRUCTURE_LIQUIDITY_SHIFTS", 58, 50)
    \o add(Has(text, "stablecoin") /\ AnyIn(text, {"supply", "issuance", "mint", "burn"}),
        "MARKET_STRUCTURE_LIQUIDITY_SHIFTS", 60, 55)
    \o add(Has(text, "exchange") /\ AnyIn(text, exchange_product_words),
        "MARKET_STRUCTURE_LIQUIDITY_SHIFTS", 58, 50)
    \o add(/\ AnyIn(text, volatility_words)
           /\ _is_crypto_related(text)
           /\ AnyIn(text, {"btc", "bitcoin", "eth", "ethereum", "crypto market", "altcoin"}),
        "MARKET_STRUCTURE_LIQUIDITY_SHIFTS", 60, 50)
    \o add(AnyIn(text, {"upgrade", "hard fork", "fork", "consensus", "parameter change",
                        "mainnet upgrade"}),
        "PROTOCOL_UPGRADES_NETWORK_CHANGES", 62, 60)
    \o add(/\ Search(text, "\\brelease\\s+v?\\d+(?:\\.\\d+)*\\b")
           /\ AnyIn(text, {"protocol", "client", "node", "mainnet", "testnet"})
           /\ _is_crypto_related(text),
        "PROTOCOL_UPGRADES_NETWORK_CHANGES", 58, 50)
    \o add(/\ AnyIn(text, {"validator", "validators"})
           /\ AnyIn(text, {"decline", "dropped", "fallen", "drop", "down", "failed",
                           "failure", "outage"}),
        "PROTOCOL_UPGRADES_NETWORK_CHANGES", 60, 55)
    \o add(/\ AnyIn(text, {"mainnet launch", "launched mainnet", "launches mainnet"})
           /\ _is_crypto_related(text),
        "NEW_PROTOCOL_PRODUCT_LAUNCHES", 62, 55)
    \o add(/\ Has(text, "stablecoin")
           /\ AnyIn(text, {"launch", "launched", "launches", "introduced"}),
        "NEW_PROTOCOL_PRODUCT_LAUNCHES", 70, 70)
    \o add(AnyIn(text, {"bridge", "cross-chain", "cross chain", "messaging", "wallet",
                        "tooling"}),
        "INTEROPERABILITY_INFRA_DEVELOPMENTS", 58, 50)
    \o add(AnyIn(text, {"mint", "minted", "burn", "burned", "unlock", "vesting",
                        "emissions"}),
        "TOKEN_ECONOMICS_SUPPLY_EVENTS", 58, 50)
    \o add(/\ Has(text, "stablecoin")
           /\ AnyIn(text, {"depeg", "lost its peg", "reserve", "reserves", "attestation",
                           "audit", "backing", "collateral", "redemption"}),
        "STABLECOINS_MONETARY_MECHANICS", 62, 60)
    \o add(/\ Has(text, "stablecoin")
           /\ AnyIn(text, {"freeze", "frozen", "halted", "halt", "bank run", "run on",
                           "liquidity", "insolvency", "insolvent"}),
        "STABLECOINS_MONETARY_MECHANICS", 60, 65)
    \o add(AnyIn(text, {"apy", "apr", "staking yield", "yield", "incentives"}),
        "YIELD_RATES_RETURN_DYNAMICS", 55, 45)
    \o add(/\ Has(text, "staking")
           /\ \/ AnyIn(text, {"apy", "apr", "yield"})
              \/ Search(text, "\\b\\d+(?:\\.\\d+)?\\s*%\\b"),
        "YIELD_RATES_RETURN_DYNAMICS", 56, 45)
    \o add(Search(text, "\\b(interest|borrow|lending|deposit|funding)\\s+rate(s)?\\b"),
        "YIELD_RATES_RETURN_DYNAMICS", 54, 45)
    \o add(AnyIn(text, {"tokenized bond", "tokenized bonds", "tokenized", "commodities",
                        "real estate", "credit", "funds"}),
        "RWA_DEVELOPMENTS", 58, 50)
    \o add(AnyIn(text, payment_terms) /\ AnyIn(text, payment_actions),
        "PAYMENTS_COMMERCE_CONSUMER_ADOPTION", 58, 50)
    \o add(AnyIn(text, {"partnership", "partnered", "integration", "integrated",
                        "collaboration", "alliance"}),
        "ECOSYSTEM_PARTNERSHIPS_INTEGRATIONS", 55, 45)
    \o add(AnyIn(text, {"earnings", "revenue", "balance sheet", "profit", "profitability"}),
        "COMPANY_FINANCIAL_PERFORMANCE", 55, 45)
    \o add(AnyIn(text, {"ceo", "cfo", "board", "chair", "layoffs", "restructuring"}),
        "CORPORATE_GOVERNANCE_LEADERSHIP_CHANGES", 55, 45)
    \o add(AnyIn(text, {"pivot", "refocus", "exiting", "exit", "entering",
                        "geographic exit"}),
        "BUSINESS_MODEL_STRATEGIC_PIVOT", 60, 55)

\* ------------------------------------------------------------ event selector
\* tuple comparison as Python compares (impact_score, confidence, -rank)
TupleGreater(a, b) ==
    \/ a[1] > b[1]
    \/ a[1] = b[1] /\ a[2] > b[2]
    \/ a[1] = b[1] /\ a[2] = b[2] /\ a[3] > b[3]

\* Faulty variant: the rank is compared the wrong way round.
key_rank_ascending(c) == << c.impact_score, c.confidence, _PRECEDENCE[c.event_type] >>

\* Faulty variant: the precedence rank is left out of the key.
key_scores_only(c) == << c.impact_score, c.confidence, 0 >>

key(c) == << c.impact_score, c.confidence, 0 - _PRECEDENCE[c.event_type] >>

\* max(candidates, key=key): a left-to-right scan that keeps the first maximal item;
\* the index of the item kept, for a non-empty list
RECURSIVE MaxScan(_, _, _)
MaxScan(candidates, i, best) ==
    IF i > Len(candidates) THEN best
    ELSE MaxScan(candidates, i + 1,
                 IF TupleGreater(key(candidates[i]), key(candidates[best])) THEN i ELSE best)

\* Faulty variant: the first candidate generated is returned.
MaxIndex_first(candidates) == 1

MaxIndex(candidates) == MaxScan(candidates, 2, 1)

\* Faulty variant: the fallback also replaces a best candidate of confidence under 0.65.
select_primary_fallback_on_low_confidence(text, candidates) ==
    IF candidates = <<>> \/ candidates[MaxIndex(candidates)].confidence < 65
    THEN IF _is_crypto_related(text)
         THEN CandidateEvent("MISC_OTHER", 45, 25)
         ELSE CandidateEvent("UNKNOWN", 40, 20)
    ELSE candidates[MaxIndex(candidates)]

select_primary(text, candidates) ==
    IF candidates = <<>>
    THEN IF _is_crypto_related(text)
         THEN CandidateEvent("MISC_OTHER", 45, 25)
         ELSE CandidateEvent("UNKNOWN", 40, 20)
    ELSE candidates[MaxIndex(candidates)]

select_primary_event(text) == select_primary(text, _candidates(text))

\* ---------------------------------------------------------------- entities
_ENTITY_SINGLE_WORD_ALLOW ==
    { "Bybit", "Ledger", "Robinhood", "BlackRock", "CoinDesk", "Cointelegraph", "Reuters" }

_ENTITY_SINGLE_WORD_DENY ==
    { "A", "An", "The", "This", "That", "These", "Those", "Crypto", "Trading",
      "Tokenized", "Digital", "New", "York", "White", "House" }

_ENTITY_ALLCAPS_DENY ==
    { "USD", "US", "UAE", "EU", "UK", "SEC", "CFTC", "DOJ", "ETF", "IBAN" }

_is_title_token(token) == token \in TitleTokens

_is_allcaps_token(token) == token \in AllcapsTokens

\* the cleaned tokens of the text, in order
RECURSIVE Tokens(_)
Tokens(words) ==
    IF words = <<>> THEN <<>> ELSE EntityTokens[Head(words)] \o Tokens(Tail(words))

\* the inner while loop: the index after the last token of the phrase
RECURSIVE PhraseEnd(_, _)
PhraseEnd(tokens, i) ==
    IF i > Len(tokens) THEN i
    ELSE IF /\ tokens[i] \in ConnectorTokens
            /\ i + 1 <= Len(tokens)
            /\ _is_title_token(tokens[i + 1])
         THEN PhraseEnd(tokens, i + 1)
         ELSE IF _is_title_token(tokens[i]) THEN PhraseEnd(tokens, i + 1) ELSE i

\* the outer while loop; an entity is the sequence of the tokens of its phrase
RECURSIVE EntityScan(_, _, _)
EntityScan(tokens, i, entities) ==
    IF i > Len(tokens) THEN entities
    ELSE LET tok == tokens[i]
             starts ==
                 \/ _is_title_token(tok)
                 \/ /\ _is_allcaps_token(tok)
                    /\ tok \notin _ENTITY_ALLCAPS_DENY
                    /\ i + 1 <= Len(tokens)
                    /\ _is_title_token(tokens[i + 1])
             j == PhraseEnd(tokens, i + 1)
             phrase == SubSeq(tokens, i, j - 1)
             keep ==
                 \/ Len(phrase) > 1
                 \/ /\ phrase[1] \notin _ENTITY_SINGLE_WORD_DENY
                    /\ phrase[1] \in _ENTITY_SINGLE_WORD_ALLOW
         IN  IF ~starts THEN EntityScan(tokens, i + 1, entities)
             ELSE EntityScan(tokens, j, IF keep THEN Append(entities, phrase) ELSE entities)

extract_entities(text) == Dedupe(EntityScan(Tokens(text.words), 1, <<>>), {})

\* ------------------------------------------------- jurisdiction, sentiment
has_any(text, patterns) == \E p \in patterns : Search(text, p)

\* the cue-sets of the cascade, in the order they are tested; "EURO" is `"€" in text`
JurisdictionCues ==
    << [bucket |-> "US",
        cues |-> { "\\bunited states\\b", "\\bu\\.?s\\.?\\b", "\\bwhite house\\b",
                   "\\bsec\\b", "\\bcftc\\b", "\\bdoj\\b", "\\bnyse\\b", "\\bnasdaq\\b" }],
       [bucket |-> "EUROPE",
        cues |-> { "\\beuropean union\\b", "\\beu\\b", "\\beuropean\\b", "\\besma\\b",
                   "\\bmica\\b", "\\becb\\b", "\\bunited kingdom\\b", "\\buk\\b",
                   "\\bfca\\b", "\\brussia\\b", "\\brussian\\b", "\\bmoscow\\b", "EURO" }],
       [bucket |-> "AMERICAS_NON_US",
        cues |-> { "\\bcanada\\b", "\\bmexico\\b", "\\bbrazil\\b", "\\bargentina\\b",
                   "\\bchile\\b", "\\bosc\\b", "\\bcsa\\b" }],
       [bucket |-> "ASIA",
        cues |-> { "\\bjapan\\b", "\\bsingapore\\b", "\\bhong\\s+kong\\b",
                   "\\b(korea|south korea|north korea)\\b", "\\bindia\\b", "\\bchina\\b",
                   "\\buae\\b", "\\bunited arab emirates\\b", "\\bdubai\\b",
                   "\\babu dhabi\\b" }],
       [bucket |-> "OCEANIA", cues |-> { "\\baustralia\\b", "\\bnew zealand\\b" }],
       [bucket |-> "AFRICA",
        cues |-> { "\\bnigeria\\b", "\\bkenya\\b", "\\bsouth africa\\b" }] >>

\* whether the text has a cue of the k-th cue-set
CueSetMatches(text, k) ==
    \/ has_any(text, JurisdictionCues[k].cues)
    \/ /\ "EURO" \in JurisdictionCues[k].cues
       /\ \E i \in DOMAIN text.words : text.words[i] \in EuroSign

\* Faulty variant: a later cue-set that matches overrides an earlier one.
resolve_jurisdiction_last_match(text) ==
    LET matching == { k \in DOMAIN JurisdictionCues : CueSetMatches(text, k) }
    IN  IF matching = {} THEN "GLOBAL"
        ELSE JurisdictionCues[CHOOSE k \in matching : \A j \in matching : j <= k].bucket

resolve_jurisdiction(text) ==
    IF has_any(text, { "\\bunited states\\b", "\\bu\\.?s\\.?\\b", "\\bwhite house\\b",
                       "\\bsec\\b", "\\bcftc\\b", "\\bdoj\\b", "\\bnyse\\b", "\\bnasdaq\\b" })
    THEN "US"
    ELSE IF has_any(text, { "\\beuropean union\\b", "\\beu\\b", "\\beuropean\\b",
                            "\\besma\\b", "\\bmica\\b", "\\becb\\b", "\\bunited kingdom\\b",
                            "\\buk\\b", "\\bfca\\b", "\\brussia\\b", "\\brussian\\b",
                            "\\bmoscow\\b" })
    THEN "EUROPE"
    ELSE IF \E i \in DOMAIN text.words : text.words[i] \in EuroSign
    THEN "EUROPE"
    ELSE IF has_any(text, { "\\bcanada\\b", "\\bmexico\\b", "\\bbrazil\\b", "\\bargentina\\b",
                            "\\bchile\\b", "\\bosc\\b", "\\bcsa\\b" })
    THEN "AMERICAS_NON_US"
    ELSE IF has_any(text, { "\\bjapan\\b", "\\bsingapore\\b", "\\bhong\\s+kong\\b",
                            "\\b(korea|south korea|north korea)\\b", "\\bindia\\b",
                            "\\bchina\\b", "\\buae\\b", "\\bunited arab emirates\\b",
                            "\\bdubai\\b", "\\babu dhabi\\b" })
    THEN "ASIA"
    ELSE IF has_any(text, { "\\baustralia\\b", "\\bnew zealand\\b" })
    THEN "OCEANIA"
    ELSE IF has_any(text, { "\\bnigeria\\b", "\\bkenya\\b", "\\bsouth africa\\b" })
    THEN "AFRICA"
    ELSE "GLOBAL"

\* Called by parse (main.py) and imported from parser.py, which does not define it;
\* taken as resolve_jurisdiction with the basis and confidence that go with its result.
resolve_jurisdiction_with_meta(text) ==
    LET j == resolve_jurisdiction(text)
    IN  IF j = "GLOBAL" THEN << j, "none", 0 >> ELSE << j, "explicit", 100 >>

\* Faulty variant: the positive cues are tested first.
infer_sentiment_positive_first(text) ==
    IF AnyIn(text, {"approval", "approved", "inflows", "record", "surge", "partnership"})
    THEN "positive"
    ELSE IF AnyIn(text, {"hack", "exploit", "lawsuit", "charges", "indict", "ban", "depeg"})
    THEN "negative"
    ELSE "neutral"

infer_sentiment(text) ==
    IF AnyIn(text, {"hack", "exploit", "lawsuit", "charges", "indict", "ban", "depeg"})
    THEN "negative"
    ELSE IF AnyIn(text, {"approval", "approved", "inflows", "record", "surge", "partnership"})
    THEN "positive"
    ELSE "neutral"

\* ----------------------------------------------------------- subtype refiner
\* Faulty variant: the fine cues are tested before the lawsuit cues.
enforcement_subtype_fine_first(text) ==
    IF AnyIn(text, {"fine", "penalty", "fined", "civil penalty"})
    THEN "regulation.enforcement.fine"
    ELSE IF Search(text, "\\b(lawsuit|sue|sues|sued)\\b")
    THEN "regulation.enforcement.lawsuit"
    ELSE IF AnyIn(text, {"settlement", "settled"})
    THEN "regulation.enforcement.settlement"
    ELSE IF AnyIn(text, {"ban", "banned", "prohibit", "prohibited", "restriction"})
    THEN "regulation.restriction"
    ELSE IF AnyIn(text, {"investigation", "probe"})
    THEN "regulation.enforcement.investigation"
    ELSE IF AnyIn(text, {"cease and desist", "cease-and-desist", "c&d"})
    THEN "regulation.enforcement.cease_and_desist"
    ELSE "None"

\* infer_event_subtype: the branch of REGULATORY_ACTION_ENFORCEMENT
enforcement_subtype(text) ==
    IF Search(text, "\\b(lawsuit|sue|sues|sued)\\b")
    THEN "regulation.enforcement.lawsuit"
    ELSE IF AnyIn(text, {"fine", "penalty", "fined", "civil penalty"})
    THEN "regulation.enforcement.fine"
    ELSE IF AnyIn(text, {"settlement", "settled"})
    THEN "regulation.enforcement.settlement"
    ELSE IF AnyIn(text, {"ban", "banned", "prohibit", "prohibited", "restriction"})
    THEN "regulation.restriction"
    ELSE IF AnyIn(text, {"investigation", "probe"})
    THEN "regulation.enforcement.investigation"
    ELSE IF AnyIn(text, {"cease and desist", "cease-and-desist", "c&d"})
    THEN "regulation.enforcement.cease_and_desist"
    ELSE "None"

infer_event_subtype(text, event_type) ==
    CASE event_type = "REGULATORY_ACTION_ENFORCEMENT" -> enforcement_subtype(text)
      [] event_type = "LEGISLATION_POLICY_DEVELOPMENT" ->
            IF AnyIn(text, {"meeting", "summit", "hearing", "roundtable"})
            THEN "regulation.policy.meeting"
            ELSE IF AnyIn(text, {"bill", "draft bill", "executive order", "policy",
                                 "framework", "consultation"})
            THEN "regulation.policy"
            ELSE IF AnyIn(text, {"guidance", "clarified", "clarifies", "rules"})
            THEN "regulation.guidance"
            ELSE "None"
      [] event_type = "GOVERNMENT_CENTRAL_BANK_INITIATIVES" -> "government.initiative"
      [] event_type = "NEW_PROTOCOL_PRODUCT_LAUNCHES" ->
            IF Has(text, "stablecoin")
            THEN IF Has(text, "registered") \/ Has(text, "registration")
                 THEN "stablecoin.launch.registered"
                 ELSE "stablecoin.launch"
            ELSE IF Has(text, "mainnet") /\ AnyIn(text, {"launch", "launched", "launches"})
            THEN "protocol.launch.mainnet"
            ELSE "protocol.launch"
      [] event_type = "PROTOCOL_UPGRADES_NETWORK_CHANGES" ->
            IF Has(text, "hard fork") THEN "protocol.upgrade.hard_fork"
            ELSE IF Has(text, "mainnet") /\ Has(text, "upgrade")
            THEN "protocol.upgrade.mainnet"
            ELSE IF Has(text, "upgrade") THEN "protocol.upgrade.upgrade"
            ELSE IF /\ AnyIn(text, {"validator", "validators"})
                    /\ AnyIn(text, {"decline", "dropped", "fallen", "drop", "down"})
            THEN "network.validators.decline"
            ELSE "None"
      [] event_type = "SECURITY_INCIDENTS_EXPLOITS" ->
            IF Has(text, "breach") THEN "security.breach"
            ELSE IF Has(text, "exploit") THEN "security.exploit"
            ELSE IF /\ AnyIn(text, {"validator", "validators"})
                    /\ AnyIn(text, {"failure", "failed", "slash", "slashed", "outage"})
            THEN "security.validator_failure"
            ELSE "security.incident"
      [] event_type = "FUNDING_INVESTMENT_MA" ->
            IF AnyIn(text, {"acquired", "acquisition", "merge", "merged", "merger"})
            THEN "institutions.ma"
            ELSE "institutions.funding"
      [] event_type = "INSTITUTIONAL_ADOPTION_STRATEGY" ->
            IF (Has(text, "bitcoin") \/ Has(text, "btc")) /\ AnyIn(text, purchase_words)
            THEN "institutions.treasury.btc_purchase"
            ELSE "institutions.adoption"
      [] event_type = "CAPITAL_MARKETS_ACTIVITY" ->
            IF Has(text, "ipo") /\ AnyIn(text, {"filed", "filing", "f-1", "s-1"})
            THEN "capital_markets.ipo.filing"
            ELSE IF /\ Has(text, "ipo")
                    /\ AnyIn(text, {"plans", "planning", "considering", "exploring"})
            THEN "capital_markets.ipo.planning"
            ELSE IF /\ AnyIn(text, {"market debut", "first day of trading", "began trading",
                                    "priced", "debut"})
                    /\ AnyIn(text, {"nyse", "nasdaq"})
            THEN "capital_markets.ipo.market_debut"
            ELSE IF /\ Has(text, "ipo")
                    /\ AnyIn(text, {"debut", "began trading", "priced", "listed"})
            THEN "capital_markets.ipo.market_debut"
            ELSE IF AnyIn(text, {"listing", "listed on", "up-list", "uplisting", "up listing"})
            THEN "capital_markets.listing"
            ELSE IF AnyIn(text, {"delist", "delisted", "delisting"})
            THEN "capital_markets.delisting"
            ELSE "None"
      [] event_type = "MARKET_STRUCTURE_LIQUIDITY_SHIFTS" ->
            IF Has(text, "tvl") \/ Has(text, "total value locked")
            THEN "market_structure.tvl"
            ELSE IF /\ Has(text, "stablecoin")
                    /\ AnyIn(text, {"supply", "issuance", "mint", "burn"})
            THEN "market_structure.stablecoin_supply"
            ELSE IF Has(text, "exchange") /\ AnyIn(text, exchange_product_words)
            THEN "market_structure.exchange.product_expansion"
            ELSE IF AnyIn(text, volatility_words) THEN "markets.volatility"
            ELSE "None"
      [] event_type = "COMPANY_FINANCIAL_PERFORMANCE" ->
            IF Has(text, "reserve") \/ Has(text, "reserves") THEN "company.reserves"
            ELSE "company.financials"
      [] event_type = "CORPORATE_GOVERNANCE_LEADERSHIP_CHANGES" ->
            IF AnyIn(text, {"ceo", "cfo", "chair", "board"}) THEN "company.leadership"
            ELSE IF AnyIn(text, {"layoff", "layoffs", "restructuring"})
            THEN "company.restructuring"
            ELSE "company.governance"
      [] event_type = "BUSINESS_MODEL_STRATEGIC_PIVOT" -> "company.pivot"
      [] event_type = "TOKEN_ECONOMICS_SUPPLY_EVENTS" ->
            IF AnyIn(text, {"unlock", "vesting"}) THEN "tokenomics.unlock"
            ELSE IF AnyIn(text, {"burn", "burned"}) THEN "tokenomics.burn"
            ELSE IF AnyIn(text, {"mint", "minted", "emissions"}) THEN "tokenomics.mint"
            ELSE "tokenomics.supply"
      [] event_type = "STABLECOINS_MONETARY_MECHANICS" ->
            IF Has(text, "depeg") \/ Has(text, "lost its peg") \/ Has(text, "lost the peg")
            THEN "stablecoin.depeg"
            ELSE IF AnyIn(text, {"reserve", "reserves", "attestation", "audit", "backing"})
            THEN "stablecoin.reserves.update"
            ELSE IF AnyIn(text, {"yield", "yield model"}) THEN "stablecoin.yield"
            ELSE IF AnyIn(text, {"warning", "warned", "risk", "threat", "impact"})
            THEN "stablecoin.risk.warning"
            ELSE "stablecoin.monetary_mechanics"
      [] event_type = "YIELD_RATES_RETURN_DYNAMICS" ->
            IF AnyIn(text, {"apy", "yield", "staking"}) THEN "yield.staking"
            ELSE "yield.rates"
      [] event_type = "RWA_DEVELOPMENTS" ->
            IF Has(text, "tokenized") THEN "rwa.tokenization" ELSE "rwa.development"
      [] event_type = "PAYMENTS_COMMERCE_CONSUMER_ADOPTION" -> "payments.adoption"
      [] event_type = "INTEROPERABILITY_INFRA_DEVELOPMENTS" ->
            IF Has(text, "bridge") THEN "infrastructure.bridge"
            ELSE IF Has(text, "wallet") THEN "infrastructure.wallet"
            ELSE IF AnyIn(text, {"cross-chain", "cross chain", "messaging"})
            THEN "infrastructure.cross_chain"
            ELSE "infrastructure.development"
      [] event_type = "ECOSYSTEM_PARTNERSHIPS_INTEGRATIONS" -> "ecosystem.partnership"
      [] event_type = "MISC_OTHER" ->
            IF AnyIn(text, {"hack", "exploit", "breach"})
            THEN IF Has(text, "breach") THEN "security.exchange_hack.breach"
                 ELSE IF Has(text, "exploit") THEN "security.exchange_hack.exploit"
                 ELSE "security.exchange_hack.hack"
            ELSE IF Has(text, "hard fork") THEN "protocol.upgrade.hard_fork"
            ELSE IF Has(text, "mainnet") /\ Has(text, "upgrade")
            THEN "protocol.upgrade.mainnet"
            ELSE IF Has(text, "upgrade") THEN "protocol.upgrade.upgrade"
            ELSE IF Has(text, "miner") /\ AnyIn(text, {"shutdown", "shut down", "halt"})
            THEN IF Has(text, "halt") THEN "protocol.mining.halt"
                 ELSE "protocol.mining.shutdown"
            ELSE "misc"
      [] OTHER -> "None"

\* ------------------------------------------------ legacy mapper and topics
infer_v1_event_type(text, event_type) ==
    IF /\ event_type \in {"NEW_PROTOCOL_PRODUCT_LAUNCHES", "STABLECOINS_MONETARY_MECHANICS"}
       /\ Has(text, "stablecoin")
    THEN "STABLECOIN_ISSUANCE"
    ELSE IF /\ event_type = "REGULATORY_ACTION_ENFORCEMENT"
            /\ AnyIn(text, {"lawsuit", "sues", "sued", "charges", "charged", "indict",
                            "investigation", "probe"})
            /\ AnyIn(text, {"sec", "cftc", "doj", "fca", "esma", "ofac"})
    THEN "ENFORCEMENT_ACTION"
    ELSE IF event_type = "PROTOCOL_UPGRADES_NETWORK_CHANGES" THEN "PROTOCOL_UPGRADE"
    ELSE IF /\ event_type = "SECURITY_INCIDENTS_EXPLOITS"
            /\ AnyIn(text, {"exchange", "cex", "bybit", "coinbase", "binance", "kraken"})
    THEN "EXCHANGE_HACK"
    ELSE "UNKNOWN"

Topics(event_type) ==
    IF event_type \in {"REGULATORY_ACTION_ENFORCEMENT", "LEGISLATION_POLICY_DEVELOPMENT",
                       "GOVERNMENT_CENTRAL_BANK_INITIATIVES"}
    THEN <<"REGULATION">>
    ELSE IF event_type = "STABLECOINS_MONETARY_MECHANICS" THEN <<"STABLECOIN">>
    ELSE IF event_type = "NEW_PROTOCOL_PRODUCT_LAUNCHES" THEN <<"LAUNCH">>
    ELSE IF event_type = "CAPITAL_MARKETS_ACTIVITY" THEN <<"CAPITAL_MARKETS">>
    ELSE IF event_type \in {"FUNDING_INVESTMENT_MA", "INSTITUTIONAL_ADOPTION_STRATEGY"}
    THEN <<"INSTITUTIONS">>
    ELSE IF event_type = "MARKET_STRUCTURE_LIQUIDITY_SHIFTS" THEN <<"MARKET_STRUCTURE">>
    ELSE IF event_type = "SECURITY_INCIDENTS_EXPLOITS" THEN <<"SECURITY">>
    ELSE IF event_type = "INTEROPERABILITY_INFRA_DEVELOPMENTS" THEN <<"INFRA">>
    ELSE IF event_type = "RWA_DEVELOPMENTS" THEN <<"RWA">>
    ELSE IF event_type = "PAYMENTS_COMMERCE_CONSUMER_ADOPTION" THEN <<"PAYMENTS">>
    ELSE <<>>

\* --------------------------------------------------------- refinement hook
None == "None"

\* An optional value: Nothing is Python's None, Some(x) is the value x.
Nothing == <<>>

Some(x) == << x >>

\* Faulty variant: `seen.add(item)` is missing.
RECURSIVE MergeLoop_seen_not_updated(_, _, _)
MergeLoop_seen_not_updated(merged, seen, extra) ==
    IF extra = <<>> THEN merged
    ELSE IF Head(extra) \notin seen
         THEN MergeLoop_seen_not_updated(Append(merged, Head(extra)), seen, Tail(extra))
         ELSE MergeLoop_seen_not_updated(merged, seen, Tail(extra))

\* merge(base, extra) of _maybe_refine: the loop over extra
RECURSIVE MergeLoop(_, _, _)
MergeLoop(merged, seen, extra) ==
    IF extra = <<>> THEN merged
    ELSE IF Head(extra) \notin seen
         THEN MergeLoop(Append(merged, Head(extra)), seen \cup {Head(extra)}, Tail(extra))
         ELSE MergeLoop(merged, seen, Tail(extra))

\* `if not extra: return base` covers None and the empty list
merge(base, extra) ==
    IF extra = Nothing \/ extra = Some(<<>>) THEN base
    ELSE MergeLoop(base, Range(base), extra[1])

\* get_llm_provider() returned None
NoProvider == [name |-> "None", supports_determinism |-> "absent"]

\* Faulty variant: a provider without the attribute counts as supporting determinism.
SupportsDeterminism_default_true(p) == p.supports_determinism # "False"

\* getattr(provider, "supports_determinism", False)
SupportsDeterminism(p) == p.supports_determinism = "True"

low_confidence(primary) ==
    \/ primary.event_type \in {"UNKNOWN", "MISC_OTHER"}
    \/ primary.confidence < 65

\* Faulty variant: the determinism guard is missing.
ShouldRefine_without_determinism_guard(p, deterministic, primary) ==
    /\ p # NoProvider
    /\ low_confidence(primary)

\* _maybe_refine up to the await: whether provider.refine() is called
ShouldRefine(p, deterministic, primary) ==
    /\ p # NoProvider
    /\ ~(deterministic /\ ~SupportsDeterminism(p))
    /\ low_confidence(primary)

\* _maybe_refine after the await: (new_primary, new_assets, new_entities)
ApplyRefinement(primary, assets, entities, refinement) ==
    [primary  |-> IF refinement.event_type # None
                  THEN CandidateEvent(refinement.event_type, primary.confidence,
                                      primary.impact_score)
                  ELSE primary,
     assets   |-> merge(assets, refinement.assets),
     entities |-> merge(entities, refinement.entities)]

\* ------------------------------------------------------------ /parse handler
SCHEMA_VERSION == "v2"

MODEL_VERSION == "news-parser-0.1"

\* ParseResponse with the subtype, topics and legacy type of the heuristic event type.
ParseResponse_fields_before_refinement(text, primary, assets, entities) ==
    LET meta == resolve_jurisdiction_with_meta(text)
        heuristic == select_primary_event(text).event_type
    IN  [event_type              |-> primary.event_type,
         v1_event_type           |-> infer_v1_event_type(text, heuristic),
         event_subtype           |-> infer_event_subtype(text, heuristic),
         topics                  |-> Topics(heuristic),
         assets                  |-> assets,
         entities                |-> entities,
         jurisdiction            |-> meta[1],
         jurisdiction_basis      |-> meta[2],
         jurisdiction_confidence |-> meta[3],
         sentiment               |-> infer_sentiment(text),
         impact_score            |-> primary.impact_score,
         confidence              |-> primary.confidence,
         schema_version          |-> SCHEMA_VERSION,
         model_version           |-> MODEL_VERSION]

ParseResponse(text, primary, assets, entities) ==
    LET meta == resolve_jurisdiction_with_meta(text)
    IN  [event_type              |-> primary.event_type,
         v1_event_type           |-> infer_v1_event_type(text, primary.event_type),
         event_subtype           |-> infer_event_subtype(text, primary.event_type),
         topics                  |-> Topics(primary.event_type),
         assets                  |-> assets,
         entities                |-> entities,
         jurisdiction            |-> meta[1],
         jurisdiction_basis      |-> meta[2],
         jurisdiction_confidence |-> meta[3],
         sentiment               |-> infer_sentiment(text),
         impact_score            |-> primary.impact_score,
         confidence              |-> primary.confidence,
         schema_version          |-> SCHEMA_VERSION,
         model_version           |-> MODEL_VERSION]

\* _error(code, message, status), and the HTTPException payloads
ErrorResponse(status, code) ==
    [status |-> status, code |-> code, body |-> Nothing, parse_id |-> 0]

\* a 200 with the record; parse_id 0 stands for no X-Parse-Id header
OkResponse(body, parse_id) ==
    [status |-> 200, code |-> None, body |-> Some(body), parse_id |-> parse_id]

\* ------------------------------------------------------------------- state
VARIABLES
    selText,    \* the text given to select_primary_event
    selCands,   \* the candidate list built for it
    selBest,    \* the candidate returned
    selIdx,     \* the position of the returned candidate in selCands (0: a fallback)
    selPc,      \* "text" -> "generated" -> "selected"
    mBase,      \* merge: the heuristic list
    mExtra,     \* merge: the refinement's list, optional
    mOut,       \* merge: the list returned
    mPc,        \* "args" -> "merged"
    provider,   \* what get_llm_provider() returns: NoProvider or a provider
    persistence,\* persistence_enabled()
    pc,         \* position of the /parse handler: idle, refining, refined, built, done
    req,        \* the request being handled
    cur,        \* the handler's locals: primary, assets, entities, refinement
    invoked,    \* whether provider.refine() was called for this request
    raised,     \* the call that raised in this request: "none", "refine" or "store"
    parsed,     \* the ParseResponse built, optional
    resp,       \* the HTTP response
    parse_runs, \* the parse_runs table
    saved,      \* an earlier deterministic exchange, kept to compare a later one with
    fText,      \* the text given to the field functions of parse
    fType,      \* the event type given with it to infer_event_subtype
    fPrimary,   \* select_primary_event(text)
    fAssets,    \* extract_assets(text)
    fEntities,  \* extract_entities(text)
    fJurisdiction, \* resolve_jurisdiction(text)
    fSentiment, \* infer_sentiment(text)
    fSubtype,   \* infer_event_subtype(text, event_type)
    fLegacy,    \* infer_v1_event_type(text, event_type)
    fRefinement,\* what provider.refine() returned, optional
    fPc,        \* the last field computed
    feedback,   \* the feedback table
    fbCall,     \* the last call on the store or of /feedback: operation and arguments
    fbOut,      \* what that call returned or raised
    urlPc,      \* position of the /parse_url handler: idle, fetching, done
    urlReq,     \* the /parse_url request being handled
    current,    \* fetch_url_text: the URL of the next GET
    redirects,  \* fetch_url_text: the redirect responses counted
    requested,  \* the URLs a GET was sent to for this request, in order
    fetched,    \* how fetch_url_text ended: a FetchResult or the error raised
    urlResp,    \* the HTTP response of /parse_url
    clients,    \* concurrent /parse requests: the position and locals of each handler
    storedBy    \* for each row of parse_runs, the request whose handler inserted it

selVars == << selText, selCands, selBest, selIdx, selPc >>

mrgVars == << mBase, mExtra, mOut, mPc >>

svcVars == << provider, persistence, pc, req, cur, invoked, raised, parsed, resp,
              parse_runs, saved >>

fldVars == << fText, fType, fPrimary, fAssets, fEntities, fJurisdiction, fSentiment,
              fSubtype, fLegacy, fRefinement, fPc >>

fbVars == << feedback, fbCall, fbOut >>

urlVars == << urlPc, urlReq, current, redirects, requested, fetched, urlResp >>

ccVars == << clients, storedBy >>

extVars == << fbVars, urlVars, ccVars >>

vars == << selText, selCands, selBest, selIdx, selPc, mBase, mExtra, mOut, mPc,
           provider, persistence, pc, req, cur, invoked, raised, parsed, resp,
           parse_runs, saved, fText, fType, fPrimary, fAssets, fEntities, fJurisdiction,
           fSentiment, fSubtype, fLegacy, fRefinement, fPc, feedback, fbCall, fbOut,
           urlPc, urlReq, current, redirects, requested, fetched, urlResp,
           clients, storedBy >>

Texts == { Text(w, "base") : w \in PhraseSeqs(MaxWords) \ { <<>> } }

NoText == Text(<<>>, "base")

NoCandidate == CandidateEvent(None, 0, 0)

\* The text of a request body as sent: the phrases and filler of a text, with
\* `padding` whitespace characters around them.
RawText(words, size, padding) == [words |-> words, size |-> size, padding |-> padding]

\* value.strip() of ParseRequest.validate_text: the padding goes
strip(raw) == Text(raw.words, raw.size)

\* len() of the text as sent
RawLen(raw) == TextLen(strip(raw)) + raw.padding

\* The text as sent is empty or only whitespace: nothing is left by strip()
BlankText(raw) == raw.words = <<>>

NoRequest == [raw |-> RawText(<<>>, "base", 0), text |-> NoText, deterministic |-> FALSE,
              auth |-> "ok"]

NoLocals == [primary |-> NoCandidate, assets |-> <<>>, entities |-> <<>>,
             refinement |-> Nothing]

NoResponse == [status |-> 0, code |-> None, body |-> Nothing, parse_id |-> 0]

\* The parts of the state a specification does not use stay as they are here.
SvcIdle ==
    /\ provider = NoProvider
    /\ persistence = FALSE
    /\ pc = "idle"
    /\ req = NoRequest
    /\ cur = NoLocals
    /\ invoked = FALSE
    /\ raised = "none"
    /\ parsed = Nothing
    /\ resp = NoResponse
    /\ parse_runs = <<>>
    /\ saved = Nothing

SelIdle ==
    /\ selText = NoText
    /\ selCands = <<>>
    /\ selBest = NoCandidate
    /\ selIdx = 0
    /\ selPc = "off"

MrgIdle ==
    /\ mBase = <<>>
    /\ mExtra = Nothing
    /\ mOut = <<>>
    /\ mPc = "off"

FldIdle ==
    /\ fText = NoText
    /\ fType = None
    /\ fPrimary = NoCandidate
    /\ fAssets = <<>>
    /\ fEntities = <<>>
    /\ fJurisdiction = None
    /\ fSentiment = None
    /\ fSubtype = None
    /\ fLegacy = None
    /\ fRefinement = Nothing
    /\ fPc = "off"

NoCall == [op |-> None]

FbIdle ==
    /\ feedback = <<>>
    /\ fbCall = NoCall
    /\ fbOut = NoCall

NoUrlRequest == [url |-> None, auth |-> "ok"]

NoOutcome == [kind |-> None]

UrlIdle ==
    /\ urlPc = "idle"
    /\ urlReq = NoUrlRequest
    /\ current = None
    /\ redirects = 0
    /\ requested = <<>>
    /\ fetched = NoOutcome
    /\ urlResp = NoResponse

CcIdle ==
    /\ clients = <<>>
    /\ storedBy = <<>>

ExtIdle == FbIdle /\ UrlIdle /\ CcIdle

\* --------------------------------------------- select_primary_event, stepwise
InitSelect ==
    /\ selText \in Texts
    /\ selCands = <<>>
    /\ selBest = NoCandidate
    /\ selIdx = 0
    /\ selPc = "text"
    /\ MrgIdle
    /\ SvcIdle
    /\ FldIdle
    /\ ExtIdle

\* candidates = _candidates(text)
Generate ==
    /\ selPc = "text"
    /\ selCands' = _candidates(selText)
    /\ selPc' = "generated"
    /\ UNCHANGED << selText, selBest, selIdx >>
    /\ UNCHANGED << mrgVars, svcVars, fldVars, extVars >>

\* the rest of select_primary_event: the fallback or the max-reduction
Select ==
    /\ selPc = "generated"
    /\ selBest' = select_primary(selText, selCands)
    /\ selIdx' = IF selCands = <<>> THEN 0 ELSE MaxIndex(selCands)
    /\ selPc' = "selected"
    /\ UNCHANGED << selText, selCands >>
    /\ UNCHANGED << mrgVars, svcVars, fldVars, extVars >>

\* The rules evaluated in another order: two neighbours of the list change places.
Reorder ==
    /\ selPc = "generated"
    /\ \E i \in 1 .. (Len(selCands) - 1) :
          selCands' = [selCands EXCEPT ![i] = selCands[i + 1], ![i + 1] = selCands[i]]
    /\ UNCHANGED << selText, selBest, selIdx, selPc >>
    /\ UNCHANGED << mrgVars, svcVars, fldVars, extVars >>

NextSelect == Generate \/ Select

SpecSelect == InitSelect /\ [][NextSelect]_vars

NextOrder == Generate \/ Reorder \/ Select

SpecOrder == InitSelect /\ [][NextOrder]_vars

\* ------------------------------------------------------ merge, on its own
\* Values of the lists merged, the longest heuristic list and the longest
\* refinement list.
MergeValues == { "BTC", "ETH", "SOL" }

MaxBase == 2

MaxList == 3

\* extract_assets and extract_entities return lists without repeats
BaseLists == { s \in SeqsUpTo(MergeValues, MaxBase) : NoRepeat(s) }

ExtraLists == {Nothing} \cup { Some(s) : s \in SeqsUpTo(MergeValues, MaxList) }

InitMerge ==
    /\ mBase \in BaseLists
    /\ mExtra \in ExtraLists
    /\ mOut = <<>>
    /\ mPc = "args"
    /\ SelIdle
    /\ SvcIdle
    /\ FldIdle
    /\ ExtIdle

\* new_assets = merge(assets, refinement.assets)
Merge ==
    /\ mPc = "args"
    /\ mOut' = merge(mBase, mExtra)
    /\ mPc' = "merged"
    /\ UNCHANGED << mBase, mExtra >>
    /\ UNCHANGED << selVars, svcVars, fldVars, extVars >>

NextMerge == Merge

SpecMerge == InitMerge /\ [][NextMerge]_vars

\* ------------------------------------------------------- the /parse service
\* Phrases of the request texts, and the longest request text in phrases.
ReqVocab == { "hack", "BTC", "tokenized" }

MaxReqWords == 1

\* What a refinement can hold: the longest list, and the values.
MaxExtra == 1

RefineAssets == { "BTC" }

RefineEntities == { <<"BlackRock">> }

RefineEventTypes == { "LEGISLATION_POLICY_DEVELOPMENT" }

\* Rows the parse_runs table can take.
MaxRuns == 1

ReqTexts ==
    { Text(w, s) : w \in { u \in PhraseSeqs(MaxReqWords) : Range(u) \subseteq ReqVocab },
                   s \in Sizes }

\* Whitespace characters around a request text.
Paddings == { 0, 1 }

\* The texts as sent: each text bare, and with whitespace around it where that
\* decides the answer (around nothing, and around a text of 20,000 characters).
ReqRawTexts ==
    { RawText(t.words, t.size, 0) : t \in ReqTexts }
        \cup { RawText(t.words, t.size, p) :
                 t \in { u \in ReqTexts : u.words = <<>> \/ u.size = "max" },
                 p \in Paddings \ {0} }

OptionalLists(values) ==
    {Nothing} \cup { Some(s) : s \in SeqsUpTo(values, MaxExtra) \ { <<>> } }

\* What provider.refine() can return: an LLMRefinement, its lists already normalised.
Refinements ==
    [event_type : {None} \cup RefineEventTypes,
     assets     : OptionalLists(RefineAssets),
     entities   : OptionalLists(RefineEntities)]

\* supports_determinism: True, False, or no such attribute
Providers ==
    {NoProvider}
        \cup { [name |-> "fake", supports_determinism |-> s] : s \in {"True", "False", "absent"} }

Init ==
    /\ SelIdle
    /\ MrgIdle
    /\ FldIdle
    /\ ExtIdle
    /\ provider \in Providers
    /\ persistence \in BOOLEAN
    /\ pc = "idle"
    /\ req = NoRequest
    /\ cur = NoLocals
    /\ invoked = FALSE
    /\ raised = "none"
    /\ parsed = Nothing
    /\ resp = NoResponse
    /\ parse_runs = <<>>
    /\ saved = Nothing

\* Rejection without the length check of parse.
Rejection_without_length_check(text, auth) ==
    IF text.words = <<>> THEN ErrorResponse(422, "INVALID_REQUEST")
    ELSE IF auth = "missing" THEN ErrorResponse(401, "UNAUTHORIZED")
    ELSE IF auth = "invalid" THEN ErrorResponse(403, "FORBIDDEN")
    ELSE NoResponse

\* What stops a request before the heuristics run: the body validator (422), then
\* _require_api_key (401, 403), then the length check (413).  auth "ok" is the right
\* key, or any header when no API_KEY is set.  NoResponse: nothing stops it.
Rejection(text, auth) ==
    IF text.words = <<>> THEN ErrorResponse(422, "INVALID_REQUEST")
    ELSE IF auth = "missing" THEN ErrorResponse(401, "UNAUTHORIZED")
    ELSE IF auth = "invalid" THEN ErrorResponse(403, "FORBIDDEN")
    ELSE IF TextLen(text) > MAX_TEXT_LENGTH THEN ErrorResponse(413, "PAYLOAD_TOO_LARGE")
    ELSE NoResponse

\* POST /parse up to the await in _maybe_refine: validation, the heuristics, and
\* the decision to call the provider.
Receive ==
    /\ pc = "idle"
    /\ persistence => Len(parse_runs) < MaxRuns
    /\ \E raw \in ReqRawTexts, deterministic \in BOOLEAN, auth \in {"ok", "missing", "invalid"} :
          LET text    == strip(raw)
              primary == select_primary_event(text)
              refine  == ShouldRefine(provider, deterministic, primary)
          IN  /\ req' = [raw |-> raw, text |-> text, deterministic |-> deterministic,
                         auth |-> auth]
              /\ IF Rejection(text, auth) # NoResponse
                 THEN /\ resp' = Rejection(text, auth)
                      /\ pc' = "done"
                      /\ cur' = NoLocals
                      /\ invoked' = FALSE
                 ELSE /\ resp' = NoResponse
                      /\ pc' = IF refine THEN "refining" ELSE "refined"
                      /\ cur' = [primary    |-> primary,
                                 assets     |-> extract_assets(text),
                                 entities   |-> extract_entities(text),
                                 refinement |-> Nothing]
                      /\ invoked' = refine
    /\ UNCHANGED << provider, persistence, raised, parsed, parse_runs, saved >>
    /\ UNCHANGED << selVars, mrgVars, fldVars, extVars >>

\* A provider that declares supports_determinism answers a deterministic request
\* for a text as it answered the kept deterministic request for that text.
Consistent(refinement) ==
    (/\ provider.supports_determinism = "True"
     /\ req.deterministic
     /\ saved # Nothing
     /\ saved[1].text = req.text
     /\ saved[1].refinement # Nothing) => Some(refinement) = saved[1].refinement

\* `refinement = await provider.refine(request)` returns, and the rest of _maybe_refine
RefineReturns ==
    /\ pc = "refining"
    /\ \E refinement \in Refinements :
          LET new == ApplyRefinement(cur.primary, cur.assets, cur.entities, refinement)
          IN  /\ Consistent(refinement)
              /\ cur' = [primary    |-> new.primary,
                         assets     |-> new.assets,
                         entities   |-> new.entities,
                         refinement |-> Some(refinement)]
    /\ pc' = "refined"
    /\ UNCHANGED << provider, persistence, req, invoked, raised, parsed, resp, parse_runs,
                    saved >>
    /\ UNCHANGED << selVars, mrgVars, fldVars, extVars >>

\* `await provider.refine(request)` raises (an error of the provider, or its timeout):
\* nothing catches it before unhandled_exception_handler
RefineRaises ==
    /\ pc = "refining"
    /\ raised' = "refine"
    /\ resp' = ErrorResponse(500, "INTERNAL_ERROR")
    /\ pc' = "done"
    /\ UNCHANGED << provider, persistence, req, cur, invoked, parsed, parse_runs, saved >>
    /\ UNCHANGED << selVars, mrgVars, fldVars, extVars >>

\* subtype, legacy type, topics and the ParseResponse
Build ==
    /\ pc = "refined"
    /\ parsed' = Some(ParseResponse(req.text, cur.primary, cur.assets, cur.entities))
    /\ pc' = "built"
    /\ UNCHANGED << provider, persistence, req, cur, invoked, raised, resp, parse_runs,
                    saved >>
    /\ UNCHANGED << selVars, mrgVars, fldVars, extVars >>

\* store_parse_run(...) inserts the row; the response carries X-Parse-Id
StoreOk ==
    /\ pc = "built"
    /\ persistence
    /\ parse_runs' = Append(parse_runs, [text |-> req.text, response |-> parsed[1]])
    /\ resp' = OkResponse(parsed[1], Len(parse_runs) + 1)
    /\ pc' = "done"
    /\ UNCHANGED << provider, persistence, req, cur, invoked, raised, parsed, saved >>
    /\ UNCHANGED << selVars, mrgVars, fldVars, extVars >>

\* store_parse_run(...) raises (a sqlite3 error): nothing catches it in parse
StoreRaises ==
    /\ pc = "built"
    /\ persistence
    /\ raised' = "store"
    /\ resp' = ErrorResponse(500, "INTERNAL_ERROR")
    /\ pc' = "done"
    /\ UNCHANGED << provider, persistence, req, cur, invoked, parsed, parse_runs, saved >>
    /\ UNCHANGED << selVars, mrgVars, fldVars, extVars >>

\* persistence disabled: return parsed
Return ==
    /\ pc = "built"
    /\ ~persistence
    /\ resp' = OkResponse(parsed[1], 0)
    /\ pc' = "done"
    /\ UNCHANGED << provider, persistence, req, cur, invoked, raised, parsed, parse_runs,
                    saved >>
    /\ UNCHANGED << selVars, mrgVars, fldVars, extVars >>

\* The response is delivered and the handler is ready for the next request.  The
\* first deterministic exchange that ended in a record may be kept by its client.
Done ==
    /\ pc = "done"
    /\ \E keep \in BOOLEAN :
          saved' = IF keep /\ saved = Nothing /\ req.deterministic /\ resp.status = 200
                   THEN Some([text |-> req.text, refinement |-> cur.refinement,
                              body |-> resp.body[1]])
                   ELSE saved
    /\ pc' = "idle"
    /\ req' = NoRequest
    /\ cur' = NoLocals
    /\ invoked' = FALSE
    /\ raised' = "none"
    /\ parsed' = Nothing
    /\ resp' = NoResponse
    /\ UNCHANGED << provider, persistence, parse_runs >>
    /\ UNCHANGED << selVars, mrgVars, fldVars, extVars >>

Next ==
    \/ Receive
    \/ RefineReturns
    \/ RefineRaises
    \/ Build
    \/ StoreOk
    \/ StoreRaises
    \/ Return
    \/ Done

Spec == Init /\ [][Next]_vars

\* ------------------------------------ every rule, and the event type override
\* The sequences without repeats of at most n phrases of V, as texts.
TextsOver(V, n) ==
    { Text(w, "base") : w \in { u \in SeqsUpTo(V, n) : NoRepeat(u) } \ { <<>> } }

\* Phrases that between them fire every rule of _candidates and both fallbacks.
RuleVocab ==
    { "hack", "exploit", "breach", "SEC fined", "guidance", "cbdc", "ipo", "listed on",
      "raised", "treasury", "wallet", "bought", "Bitcoin", "liquidity", "stablecoin",
      "burn", "exchange options", "plunge", "upgrade", "testnet release v2",
      "validators dropped", "its mainnet launch", "launched", "reserves",
      "stablecoin halted", "yield", "staking apr", "lending rate", "tokenized",
      "accepts payments", "partnership", "revenue", "CEO", "pivot", "breakfast", "BTC",
      "hard fork", "Ethereum developers", "for mainnet." }

RuleTexts == TextsOver(RuleVocab, MaxWords)

\* Event types a refinement puts in the place of the heuristic one.
OverrideTypes ==
    { "SECURITY_INCIDENTS_EXPLOITS", "LEGISLATION_POLICY_DEVELOPMENT", "UNKNOWN" }

InitRules ==
    /\ selText \in RuleTexts
    /\ selCands = <<>>
    /\ selBest = NoCandidate
    /\ selIdx = 0
    /\ selPc = "text"
    /\ MrgIdle
    /\ SvcIdle
    /\ FldIdle
    /\ ExtIdle

\* _maybe_refine with a provider that returns an event type: new_primary
Override ==
    /\ selPc = "selected"
    /\ low_confidence(selBest)
    /\ \E event_type \in OverrideTypes :
          selBest' = ApplyRefinement(selBest, <<>>, <<>>,
                                     [event_type |-> event_type, assets |-> Nothing,
                                      entities |-> Nothing]).primary
    /\ selPc' = "refined"
    /\ UNCHANGED << selText, selCands, selIdx >>
    /\ UNCHANGED << mrgVars, svcVars, fldVars, extVars >>

NextRules == Generate \/ Select \/ Override

SpecRules == InitRules /\ [][NextRules]_vars

\* ------------------------------------------------- the field functions of parse
\* Phrases with jurisdiction cues of every bucket, asset names and tickers, other
\* upper-case tokens, entity names and sentiment cues.
FieldVocab ==
    { "SEC", "EU", "Canada", "Japan", "Australia", "Kenya", "€5", "Bitcoin", "BTC",
      "Solana", "BlackRock", "BlackRock said", "CEO", "hack", "lawsuit", "partnership",
      "breakfast" }

FieldTexts == TextsOver(FieldVocab, MaxWords)

\* What a refinement's lists hold, and the longest of them; a list may repeat a value.
FieldRefineAssets == { "BTC", "DOGE" }

FieldRefineEntities == { <<"BlackRock">> }

MaxRefined == 2

FieldRefinements ==
    [event_type : {None},
     assets     : {Nothing} \cup { Some(s) : s \in SeqsUpTo(FieldRefineAssets, MaxRefined) },
     entities   : {Nothing} \cup { Some(s) : s \in SeqsUpTo(FieldRefineEntities, MaxRefined) }]

InitFields ==
    /\ fText \in FieldTexts
    /\ fType = None
    /\ fPrimary = NoCandidate
    /\ fAssets = <<>>
    /\ fEntities = <<>>
    /\ fJurisdiction = None
    /\ fSentiment = None
    /\ fSubtype = None
    /\ fLegacy = None
    /\ fRefinement = Nothing
    /\ fPc = "text"
    /\ SelIdle
    /\ MrgIdle
    /\ SvcIdle
    /\ ExtIdle

\* primary = select_primary_event(req.text)
SelectPrimary ==
    /\ fPc = "text"
    /\ fPrimary' = select_primary_event(fText)
    /\ fPc' = "primary"
    /\ UNCHANGED << fText, fType, fAssets, fEntities, fJurisdiction, fSentiment, fSubtype,
                    fLegacy, fRefinement >>
    /\ UNCHANGED << selVars, mrgVars, svcVars, extVars >>

\* assets = extract_assets(req.text)
ExtractAssets ==
    /\ fPc = "primary"
    /\ fAssets' = extract_assets(fText)
    /\ fPc' = "assets"
    /\ UNCHANGED << fText, fType, fPrimary, fEntities, fJurisdiction, fSentiment,
                    fSubtype, fLegacy, fRefinement >>
    /\ UNCHANGED << selVars, mrgVars, svcVars, extVars >>

\* entities = extract_entities(req.text)
ExtractEntities ==
    /\ fPc = "assets"
    /\ fEntities' = extract_entities(fText)
    /\ fPc' = "entities"
    /\ UNCHANGED << fText, fType, fPrimary, fAssets, fJurisdiction, fSentiment,
                    fSubtype, fLegacy, fRefinement >>
    /\ UNCHANGED << selVars, mrgVars, svcVars, extVars >>

\* resolve_jurisdiction(text)
ResolveJurisdiction ==
    /\ fPc = "entities"
    /\ fJurisdiction' = resolve_jurisdiction(fText)
    /\ fPc' = "jurisdiction"
    /\ UNCHANGED << fText, fType, fPrimary, fAssets, fEntities, fSentiment,
                    fSubtype, fLegacy, fRefinement >>
    /\ UNCHANGED << selVars, mrgVars, svcVars, extVars >>

\* sentiment = infer_sentiment(req.text)
InferSentiment ==
    /\ fPc = "jurisdiction"
    /\ fSentiment' = infer_sentiment(fText)
    /\ fPc' = "sentiment"
    /\ UNCHANGED << fText, fType, fPrimary, fAssets, fEntities, fJurisdiction,
                    fSubtype, fLegacy, fRefinement >>
    /\ UNCHANGED << selVars, mrgVars, svcVars, extVars >>

\* primary, assets, entities = await _maybe_refine(...), with a provider that returns
\* lists: the lists of the response
MergeRefinement ==
    /\ fPc = "sentiment"
    /\ low_confidence(fPrimary)
    /\ \E refinement \in FieldRefinements :
          LET new == ApplyRefinement(fPrimary, fAssets, fEntities, refinement)
          IN  /\ fAssets' = new.assets
              /\ fEntities' = new.entities
              /\ fRefinement' = Some(refinement)
    /\ fPc' = "refined"
    /\ UNCHANGED << fText, fType, fPrimary, fJurisdiction, fSentiment, fSubtype,
                    fLegacy >>
    /\ UNCHANGED << selVars, mrgVars, svcVars, extVars >>

NextFields ==
    SelectPrimary \/ ExtractAssets \/ ExtractEntities \/ ResolveJurisdiction \/ InferSentiment
        \/ MergeRefinement

SpecFields == InitFields /\ [][NextFields]_vars

\* ------------------------------------- the subtype refiner and the legacy mapper
\* Phrases with the cues of each step of the enforcement cascade, and cues of the
\* upgrade, security, stablecoin and launch subtypes.
SubtypeVocab ==
    { "lawsuit", "SEC fined", "settled", "banned", "probe", "c&d", "SEC", "upgrade",
      "hack", "stablecoin", "stablecoin halted", "launched", "exchange options",
      "breakfast" }

SubtypeTexts == TextsOver(SubtypeVocab, MaxWords)

\* The functions are given a text and an event type: the one selected for the text,
\* or the one a refinement put in its place.
InitSubtype ==
    /\ fText \in SubtypeTexts
    /\ fType \in EventType
    /\ fPrimary = NoCandidate
    /\ fAssets = <<>>
    /\ fEntities = <<>>
    /\ fJurisdiction = None
    /\ fSentiment = None
    /\ fSubtype = None
    /\ fLegacy = None
    /\ fRefinement = Nothing
    /\ fPc = "text"
    /\ SelIdle
    /\ MrgIdle
    /\ SvcIdle
    /\ ExtIdle

\* event_subtype = infer_event_subtype(req.text, primary.event_type)
InferSubtype ==
    /\ fPc = "text"
    /\ fSubtype' = infer_event_subtype(fText, fType)
    /\ fPc' = "subtype"
    /\ UNCHANGED << fText, fType, fPrimary, fAssets, fEntities, fJurisdiction, fSentiment,
                    fLegacy, fRefinement >>
    /\ UNCHANGED << selVars, mrgVars, svcVars, extVars >>

\* v1_event_type = infer_v1_event_type(req.text, primary.event_type)
InferLegacy ==
    /\ fPc = "subtype"
    /\ fLegacy' = infer_v1_event_type(fText, fType)
    /\ fPc' = "legacy"
    /\ UNCHANGED << fText, fType, fPrimary, fAssets, fEntities, fJurisdiction, fSentiment,
                    fSubtype, fRefinement >>
    /\ UNCHANGED << selVars, mrgVars, svcVars, extVars >>

NextSubtype == InferSubtype \/ InferLegacy

SpecSubtype == InitSubtype /\ [][NextSubtype]_vars

\* ------------------------------------------------------- the feedback store
\* Rows the feedback table can take.
MaxFeedback == 2

\* Texts of the stored parse runs.
FeedbackTexts == TextsOver({"SEC", "tokenized"}, 1)

\* A dict of corrected fields: its items in insertion order.
ExpectedValues ==
    { <<>>, << <<"event_type", "LEGISLATION_POLICY_DEVELOPMENT">>, <<"jurisdiction", "US">> >> }

InputIds == { None, "x2" }

\* json.dumps(expected) is a JSON object text with the items of the dict, "{}" for
\* the empty dict; json.loads gives the dict back.
json_dumps(expected) == [json |-> "object", members |-> expected]

json_loads(expected_json) == expected_json.members

\* `if r["expected_json"]`: the column holds a text that is not the empty string
NonEmptyJson(expected_json) == expected_json.json = "object"

\* _load_parse_text: the text of the row with this id, or None
_load_parse_text(runs, parse_id) ==
    IF parse_id \in DOMAIN runs THEN Some(runs[parse_id].text) ELSE Nothing

\* Faulty variant: the id returned is that of the first row of the table.
store_parse_run_first_id(runs, text, response) ==
    [runs |-> Append(runs, [text |-> text, response |-> response]),
     parse_id |-> 1]

\* store_parse_run: the row inserted; its id is its position (AUTOINCREMENT, and
\* no row is ever deleted)
store_parse_run(runs, text, response) ==
    [runs |-> Append(runs, [text |-> text, response |-> response]),
     parse_id |-> Len(runs) + 1]

\* store_feedback(parse_id=, input_id=, expected=, notes=): the table after the
\* call, and the id returned or the error raised.  The notes column is left out.
store_feedback(table, runs, parse_id, input_id, expected) ==
    LET text == IF parse_id = Nothing THEN Nothing ELSE _load_parse_text(runs, parse_id[1])
        row  == [parse_run_id |-> parse_id, input_id |-> input_id, text |-> text,
                 expected_json |-> json_dumps(expected)]
    IN  IF parse_id # Nothing /\ text = Nothing
        THEN [raised |-> "ValueError", message |-> "parse_id not found",
              table |-> table, id |-> 0]
        ELSE [raised |-> None, message |-> None,
              table |-> Append(table, row), id |-> Len(table) + 1]

\* f"feedback-{r['id']}"
CaseId(id) == << "feedback-", id >>

\* Faulty variant: rows without text are exported too.
RECURSIVE ExportRows_without_skip(_, _)
ExportRows_without_skip(table, i) ==
    IF i > Len(table) THEN <<>>
    ELSE LET r == table[i]
             expected == IF NonEmptyJson(r.expected_json) THEN json_loads(r.expected_json)
                         ELSE <<>>
         IN  << [id |-> CaseId(i), text |-> r.text, expected |-> expected] >>
                 \o ExportRows_without_skip(table, i + 1)

\* the loop of export_feedback_cases over the rows in ascending id, from row i on
RECURSIVE ExportRows(_, _)
ExportRows(table, i) ==
    IF i > Len(table) THEN <<>>
    ELSE LET r == table[i]
             expected == IF NonEmptyJson(r.expected_json) THEN json_loads(r.expected_json)
                         ELSE <<>>
         IN  (IF r.text = Nothing \/ r.text[1].words = <<>>
              THEN <<>>
              ELSE << [id |-> CaseId(i), text |-> r.text[1], expected |-> expected] >>)
                 \o ExportRows(table, i + 1)

export_feedback_cases(table) == ExportRows(table, 1)

\* The keyword arguments store_feedback takes, and those feedback() calls it with.
store_feedback_parameters == { "parse_id", "input_id", "expected", "notes" }

feedback_call_keywords == { "parse_id", "input_id", "text", "expected", "notes" }

\* A call with a keyword the function does not take raises TypeError before the
\* function body runs.
CallRaisesTypeError == ~(feedback_call_keywords \subseteq store_feedback_parameters)

\* FeedbackResponse(feedback_id=fid), status "stored"
FeedbackResponse(fid) ==
    [status |-> 200, code |-> None,
     body |-> Some([feedback_id |-> fid, status |-> "stored"]), parse_id |-> 0]

\* The /feedback handler: the HTTP response and the table after it.
feedback_handler(table, runs, enabled, auth, parse_id, input_id, expected) ==
    LET stored == store_feedback(table, runs, parse_id, input_id, expected)
    IN  IF auth = "missing" THEN [resp |-> ErrorResponse(401, "UNAUTHORIZED"), table |-> table]
        ELSE IF auth = "invalid" THEN [resp |-> ErrorResponse(403, "FORBIDDEN"), table |-> table]
        ELSE IF ~enabled
             THEN [resp |-> ErrorResponse(400, "PERSISTENCE_DISABLED"), table |-> table]
        ELSE IF parse_id = Nothing /\ input_id = None
             THEN [resp |-> ErrorResponse(422, "INVALID_REQUEST"), table |-> table]
        ELSE IF CallRaisesTypeError
             THEN [resp |-> ErrorResponse(500, "INTERNAL_ERROR"), table |-> table]
        ELSE IF stored.raised = "ValueError"
             THEN [resp |-> ErrorResponse(422, "INVALID_REQUEST"), table |-> stored.table]
        ELSE [resp |-> FeedbackResponse(stored.id), table |-> stored.table]

ParseIds == {Nothing} \cup { Some(i) : i \in 1 .. (MaxRuns + 1) }

InitFeedback ==
    /\ SelIdle
    /\ MrgIdle
    /\ FldIdle
    /\ provider = NoProvider
    /\ persistence \in BOOLEAN
    /\ pc = "idle"
    /\ req = NoRequest
    /\ cur = NoLocals
    /\ invoked = FALSE
    /\ raised = "none"
    /\ parsed = Nothing
    /\ resp = NoResponse
    /\ parse_runs = <<>>
    /\ saved = Nothing
    /\ feedback = <<>>
    /\ fbCall = NoCall
    /\ fbOut = NoCall
    /\ UrlIdle
    /\ CcIdle

FbUnchanged ==
    /\ UNCHANGED << provider, persistence, pc, req, cur, invoked, raised, parsed, resp, saved >>
    /\ UNCHANGED << selVars, mrgVars, fldVars, urlVars, ccVars >>

\* parse stores the run of a request: store_parse_run(text=, response=)
StoreParseRun ==
    /\ Len(parse_runs) < MaxRuns
    /\ \E text \in FeedbackTexts :
          LET response == ParseResponse(text, select_primary_event(text),
                                        extract_assets(text), extract_entities(text))
              stored == store_parse_run(parse_runs, text, response)
          IN  /\ parse_runs' = stored.runs
              /\ fbCall' = [op |-> "store_parse_run", text |-> text]
              /\ fbOut' = [op |-> "store_parse_run", parse_id |-> stored.parse_id]
    /\ UNCHANGED feedback
    /\ FbUnchanged

\* a call of storage.store_feedback
StoreFeedback ==
    /\ Len(feedback) < MaxFeedback
    /\ \E parse_id \in ParseIds, input_id \in InputIds, expected \in ExpectedValues :
          LET stored == store_feedback(feedback, parse_runs, parse_id, input_id, expected)
          IN  /\ feedback' = stored.table
              /\ fbCall' = [op |-> "store_feedback", parse_id |-> parse_id,
                            input_id |-> input_id, expected |-> expected]
              /\ fbOut' = [op |-> "store_feedback", raised |-> stored.raised,
                           message |-> stored.message, id |-> stored.id]
    /\ UNCHANGED parse_runs
    /\ FbUnchanged

\* POST /feedback
PostFeedback ==
    /\ Len(feedback) < MaxFeedback
    /\ \E auth \in {"ok", "missing", "invalid"}, parse_id \in ParseIds,
          input_id \in InputIds, expected \in ExpectedValues :
          LET out == feedback_handler(feedback, parse_runs, persistence, auth, parse_id,
                                      input_id, expected)
          IN  /\ feedback' = out.table
              /\ fbCall' = [op |-> "feedback", auth |-> auth, parse_id |-> parse_id,
                            input_id |-> input_id, expected |-> expected]
              /\ fbOut' = [op |-> "feedback", resp |-> out.resp]
    /\ UNCHANGED parse_runs
    /\ FbUnchanged

\* a call of storage.export_feedback_cases
ExportFeedbackCases ==
    /\ fbCall' = [op |-> "export_feedback_cases"]
    /\ fbOut' = [op |-> "export_feedback_cases", cases |-> export_feedback_cases(feedback)]
    /\ UNCHANGED << feedback, parse_runs >>
    /\ FbUnchanged

NextFeedback == StoreParseRun \/ StoreFeedback \/ PostFeedback \/ ExportFeedbackCases

SpecFeedback == InitFeedback /\ [][NextFeedback]_vars

\* ------------------------------------------- fetch_url_text and /parse_url
_MAX_REDIRECTS == 3

\* The URLs of requests and of Location headers, already joined to the current
\* URL.  validate_url_for_fetch blocks the third (a private address), and the DNS
\* resolution of the fourth fails.
Urls == { "https://a.example/", "https://b.example/", "https://10.0.0.1/",
          "https://nodns.example/" }

\* What a call raises.
Raise(error, message) == [kind |-> error, message |-> message]

\* validate_url_for_fetch(url): NoOutcome when it returns, else what it raises
validate_url_for_fetch(url) ==
    CASE url = "https://10.0.0.1/"      -> Raise("FetchBlockedError", "Blocked IP address")
      [] url = "https://nodns.example/" -> Raise("FetchError", "DNS resolution failed")
      [] OTHER                          -> NoOutcome

\* The bodies of the pages served: a text with or without whitespace around it.
PageBodies ==
    { RawText(w, "base", p) : w \in { <<>>, <<"SEC">>, <<"tokenized">> }, p \in Paddings }

\* How one client.get(current) ends.
HttpResponses ==
    [kind : {"timeout", "http_error", "error_status"}]
        \cup [kind : {"redirect"}, location : {Nothing} \cup { Some(u) : u \in Urls }]
        \cup [kind : {"page"},
              content_type : {"text/html", "text/plain", "application/pdf"},
              too_large : BOOLEAN, body : PageBodies]

\* FetchResult(url=, content_type=, text=)
FetchResult(url, content_type, text) ==
    [kind |-> "FetchResult", url |-> url, content_type |-> content_type, text |-> text]

\* _html_to_text ends with _cleanup_extracted_text, which strips; text/plain is
\* decoded as it is (and cut to 20,000 characters, which these bodies never reach)
ExtractedText(content_type, body) ==
    IF content_type = "text/html" THEN RawText(body.words, body.size, 0) ELSE body

\* the URL of the next GET and the redirect count when the loop goes on
Continue(url, n) == [kind |-> "continue", url |-> url, redirects |-> n]

\* Faulty variant: the redirect target is not validated before the loop goes on.
redirect_without_validation(n, location) ==
    IF location = Nothing
    THEN Raise("FetchError", "Redirect response missing Location header")
    ELSE IF n + 1 > _MAX_REDIRECTS THEN Raise("FetchError", "Too many redirects")
    ELSE Continue(location[1], n + 1)

\* the redirect branch of the loop, with the count n before this response
redirect(n, location) ==
    IF location = Nothing
    THEN Raise("FetchError", "Redirect response missing Location header")
    ELSE IF n + 1 > _MAX_REDIRECTS THEN Raise("FetchError", "Too many redirects")
    ELSE IF validate_url_for_fetch(location[1]) # NoOutcome
         THEN validate_url_for_fetch(location[1])
    ELSE Continue(location[1], n + 1)

\* One turn of the loop of fetch_url_text after client.get(url) ended with r.
loop_turn(url, n, r) ==
    CASE r.kind = "timeout"      -> Raise("FetchTimeoutError", "Fetch timed out")
      [] r.kind = "http_error"   -> Raise("FetchError", "Fetch failed")
      [] r.kind = "redirect"     -> redirect(n, r.location)
      [] r.kind = "error_status" -> Raise("FetchError", "Upstream returned HTTP error")
      [] r.kind = "page" ->
            IF r.content_type \notin {"text/html", "text/plain"}
            THEN Raise("FetchUnsupportedContentTypeError", "Unsupported content-type")
            ELSE IF r.too_large
                 THEN Raise("FetchTooLargeError", "Fetched document exceeded max size")
            ELSE FetchResult(url, r.content_type, ExtractedText(r.content_type, r.body))

\* The except clauses of parse_url, in their order.
FetchErrorResponse(kind) ==
    CASE kind = "FetchBlockedError"                -> ErrorResponse(400, "URL_BLOCKED")
      [] kind = "FetchTooLargeError"               -> ErrorResponse(413, "FETCH_TOO_LARGE")
      [] kind = "FetchTimeoutError"                -> ErrorResponse(504, "FETCH_TIMEOUT")
      [] kind = "FetchUnsupportedContentTypeError" ->
            ErrorResponse(415, "UNSUPPORTED_FETCH_CONTENT_TYPE")
      [] kind = "FetchError"                       -> ErrorResponse(502, "FETCH_FAILED")

\* parse_url after fetch_url_text ended: the response, and the parse_runs table.
\* ParseRequest(text=fetched.text) is built inside the handler: a blank text raises
\* pydantic's ValidationError there, which is not a RequestValidationError and goes
\* to unhandled_exception_handler.  Otherwise parse() runs, here without a provider.
after_fetch(outcome, auth, enabled, runs) ==
    IF outcome.kind # "FetchResult"
    THEN [resp |-> FetchErrorResponse(outcome.kind), runs |-> runs]
    ELSE IF BlankText(outcome.text)
         THEN [resp |-> ErrorResponse(500, "INTERNAL_ERROR"), runs |-> runs]
    ELSE LET text == strip(outcome.text)
             parsed_ == ParseResponse(text, select_primary_event(text),
                                      extract_assets(text), extract_entities(text))
         IN  IF Rejection(text, auth) # NoResponse
             THEN [resp |-> Rejection(text, auth), runs |-> runs]
             ELSE IF enabled
                  THEN [resp |-> OkResponse(parsed_, Len(runs) + 1),
                        runs |-> store_parse_run(runs, text, parsed_).runs]
             ELSE [resp |-> OkResponse(parsed_, 0), runs |-> runs]

UrlUnchanged ==
    /\ UNCHANGED << provider, persistence, pc, req, cur, invoked, raised, parsed, resp, saved >>
    /\ UNCHANGED << selVars, mrgVars, fldVars, fbVars, ccVars >>

InitParseUrl ==
    /\ SelIdle
    /\ MrgIdle
    /\ FldIdle
    /\ FbIdle
    /\ provider = NoProvider
    /\ persistence \in BOOLEAN
    /\ pc = "idle"
    /\ req = NoRequest
    /\ cur = NoLocals
    /\ invoked = FALSE
    /\ raised = "none"
    /\ parsed = Nothing
    /\ resp = NoResponse
    /\ parse_runs = <<>>
    /\ saved = Nothing
    /\ UrlIdle
    /\ CcIdle

\* POST /parse_url up to the first client.get: _require_api_key, then
\* validate_url_for_fetch(url) at the head of fetch_url_text
PostParseUrl ==
    /\ urlPc = "idle"
    /\ persistence => Len(parse_runs) < MaxRuns
    /\ \E url \in Urls, auth \in {"ok", "missing", "invalid"} :
          LET checked == validate_url_for_fetch(url)
          IN  /\ urlReq' = [url |-> url, auth |-> auth]
              /\ IF auth # "ok"
                 THEN /\ urlResp' = IF auth = "missing"
                                    THEN ErrorResponse(401, "UNAUTHORIZED")
                                    ELSE ErrorResponse(403, "FORBIDDEN")
                      /\ fetched' = NoOutcome
                      /\ current' = None
                      /\ urlPc' = "done"
                 ELSE IF checked # NoOutcome
                 THEN /\ urlResp' = FetchErrorResponse(checked.kind)
                      /\ fetched' = checked
                      /\ current' = None
                      /\ urlPc' = "done"
                 ELSE /\ urlResp' = NoResponse
                      /\ fetched' = NoOutcome
                      /\ current' = url
                      /\ urlPc' = "fetching"
    /\ redirects' = 0
    /\ requested' = <<>>
    /\ UNCHANGED parse_runs
    /\ UrlUnchanged

\* `resp = await client.get(current)` ends, and the loop runs to its next GET or
\* to its end; when it ends, parse_url runs to its response.
HttpResponds ==
    /\ urlPc = "fetching"
    /\ requested' = Append(requested, current)
    /\ \E r \in HttpResponses :
          LET turn == loop_turn(current, redirects, r)
              out  == after_fetch(turn, urlReq.auth, persistence, parse_runs)
          IN  /\ redirects' = IF r.kind = "redirect" /\ r.location # Nothing
                              THEN redirects + 1 ELSE redirects
              /\ IF turn.kind = "continue"
                 THEN /\ current' = turn.url
                      /\ UNCHANGED << urlPc, fetched, urlResp, parse_runs >>
                 ELSE /\ fetched' = turn
                      /\ urlResp' = out.resp
                      /\ parse_runs' = out.runs
                      /\ urlPc' = "done"
                      /\ UNCHANGED current
    /\ UNCHANGED urlReq
    /\ UrlUnchanged

\* The response is delivered and the handler is ready for the next request.
UrlDone ==
    /\ urlPc = "done"
    /\ urlPc' = "idle"
    /\ urlReq' = NoUrlRequest
    /\ current' = None
    /\ redirects' = 0
    /\ requested' = <<>>
    /\ fetched' = NoOutcome
    /\ urlResp' = NoResponse
    /\ UNCHANGED parse_runs
    /\ UrlUnchanged

NextParseUrl == PostParseUrl \/ HttpResponds \/ UrlDone

SpecParseUrl == InitParseUrl /\ [][NextParseUrl]_vars

\* Each HTTP request ends: httpx returns the response or raises within its timeouts.
SpecParseUrlLive == SpecParseUrl /\ WF_vars(HttpResponds)

\* ------------------------------------------------ concurrent /parse requests
\* Requests in flight at once, each in its own handler (a coroutine of one
\* worker, or a handler of another worker process on the same database).
MaxClients == 2

Clients == 1 .. MaxClients

\* The texts they send: a blank one, one the heuristics are sure of, one they are not.
ClientTexts == { NoText } \cup TextsOver({"hack", "BTC"}, 1)

\* What provider.refine() returns to them.
ClientRefinements ==
    [event_type : {None} \cup RefineEventTypes, assets : {Nothing}, entities : {Nothing}]

NoClient == [pc |-> "idle", text |-> NoText, parsed |-> Nothing, resp |-> NoResponse]

InitClients ==
    /\ SelIdle
    /\ MrgIdle
    /\ FldIdle
    /\ FbIdle
    /\ UrlIdle
    /\ provider \in {NoProvider, [name |-> "fake", supports_determinism |-> "False"]}
    /\ persistence \in BOOLEAN
    /\ pc = "idle"
    /\ req = NoRequest
    /\ cur = NoLocals
    /\ invoked = FALSE
    /\ raised = "none"
    /\ parsed = Nothing
    /\ resp = NoResponse
    /\ parse_runs = <<>>
    /\ saved = Nothing
    /\ clients = [i \in Clients |-> NoClient]
    /\ storedBy = <<>>

CcUnchanged ==
    /\ UNCHANGED << provider, persistence, pc, req, cur, invoked, raised, parsed, resp, saved >>
    /\ UNCHANGED << selVars, mrgVars, fldVars, fbVars, urlVars >>

\* the record parse builds from the locals after _maybe_refine
Built(text, refinement) ==
    LET new == IF refinement = Nothing
               THEN [primary |-> select_primary_event(text), assets |-> extract_assets(text),
                     entities |-> extract_entities(text)]
               ELSE ApplyRefinement(select_primary_event(text), extract_assets(text),
                                    extract_entities(text), refinement[1])
    IN  ParseResponse(text, new.primary, new.assets, new.entities)

\* request i arrives: validation, the heuristics, and the decision to call the provider
ClientReceive(i) ==
    /\ clients[i].pc = "idle"
    /\ clients[i].resp = NoResponse
    /\ \E text \in ClientTexts :
          clients' = [clients EXCEPT ![i] =
              IF Rejection(text, "ok") # NoResponse
              THEN [pc |-> "done", text |-> text, parsed |-> Nothing,
                    resp |-> Rejection(text, "ok")]
              ELSE IF ShouldRefine(provider, FALSE, select_primary_event(text))
                   THEN [pc |-> "refining", text |-> text, parsed |-> Nothing,
                         resp |-> NoResponse]
              ELSE [pc |-> "built", text |-> text, parsed |-> Some(Built(text, Nothing)),
                    resp |-> NoResponse]]
    /\ UNCHANGED << parse_runs, storedBy >>
    /\ CcUnchanged

\* the provider answers request i, and parse builds its record
ClientRefineReturns(i) ==
    /\ clients[i].pc = "refining"
    /\ \E refinement \in ClientRefinements :
          clients' = [clients EXCEPT ![i].pc = "built",
                                     ![i].parsed = Some(Built(clients[i].text, Some(refinement)))]
    /\ UNCHANGED << parse_runs, storedBy >>
    /\ CcUnchanged

\* the provider raises in request i
ClientRefineRaises(i) ==
    /\ clients[i].pc = "refining"
    /\ clients' = [clients EXCEPT ![i].pc = "done",
                                  ![i].resp = ErrorResponse(500, "INTERNAL_ERROR")]
    /\ UNCHANGED << parse_runs, storedBy >>
    /\ CcUnchanged

\* store_parse_run in request i: the INSERT and its commit are one step of the
\* database, and lastrowid is that of the handler's own connection
ClientStoreOk(i) ==
    /\ clients[i].pc = "built"
    /\ persistence
    /\ LET stored == store_parse_run(parse_runs, clients[i].text, clients[i].parsed[1])
       IN  /\ parse_runs' = stored.runs
           /\ clients' = [clients EXCEPT ![i].pc = "done",
                              ![i].resp = OkResponse(clients[i].parsed[1], stored.parse_id)]
    /\ storedBy' = Append(storedBy, i)
    /\ CcUnchanged

\* store_parse_run raises in request i (the database is locked, or the disk is full)
ClientStoreRaises(i) ==
    /\ clients[i].pc = "built"
    /\ persistence
    /\ clients' = [clients EXCEPT ![i].pc = "done",
                                  ![i].resp = ErrorResponse(500, "INTERNAL_ERROR")]
    /\ UNCHANGED << parse_runs, storedBy >>
    /\ CcUnchanged

\* persistence disabled: request i returns its record
ClientReturn(i) ==
    /\ clients[i].pc = "built"
    /\ ~persistence
    /\ clients' = [clients EXCEPT ![i].pc = "done",
                                  ![i].resp = OkResponse(clients[i].parsed[1], 0)]
    /\ UNCHANGED << parse_runs, storedBy >>
    /\ CcUnchanged

NextClients ==
    \E i \in Clients :
        \/ ClientReceive(i)
        \/ ClientRefineReturns(i)
        \/ ClientRefineRaises(i)
        \/ ClientStoreOk(i)
        \/ ClientStoreRaises(i)
        \/ ClientReturn(i)

SpecClients == InitClients /\ [][NextClients]_vars

\* ------------------------------------------------------------------ claims
\* a comes before b under (impact_score descending, confidence descending,
\* precedence rank ascending)
Ahead(a, b) ==
    \/ a.impact_score > b.impact_score
    \/ a.impact_score = b.impact_score /\ a.confidence > b.confidence
    \/ /\ a.impact_score = b.impact_score
       /\ a.confidence = b.confidence
       /\ _PRECEDENCE[a.event_type] < _PRECEDENCE[b.event_type]

\* a and b are tied on impact_score and confidence
ScoreTie(a, b) == a.impact_score = b.impact_score /\ a.confidence = b.confidence

\* C1: when at least one rule fires, select_primary_event returns one of the
\* generated candidates, unchanged, and no generated candidate comes before it
\* under (impact_score descending, confidence descending, rank ascending).
C1_SelectsMaximalCandidate ==
    (selPc = "selected" /\ selCands # <<>>) =>
        /\ \E i \in DOMAIN selCands : selCands[i] = selBest
        /\ \A j \in DOMAIN selCands : ~Ahead(selCands[j], selBest)

\* C1 happens: the candidate selected has the highest impact_score although another
\* candidate, generated before it, has the higher confidence.
C1_Witness ==
    /\ selPc = "selected"
    /\ selIdx > 1
    /\ selBest = selCands[selIdx]
    /\ \E j \in 1 .. (selIdx - 1) :
          /\ selCands[j].confidence > selBest.confidence
          /\ selCands[j].impact_score < selBest.impact_score

\* C2: of two candidates with equal impact_score and equal confidence and different
\* event types, the one with the higher precedence rank is never the one selected,
\* wherever the two sit in the list.
C2_LowerRankWinsTie ==
    selPc = "selected" =>
        \A i, j \in DOMAIN selCands :
            (/\ ScoreTie(selCands[i], selCands[j])
             /\ _PRECEDENCE[selCands[i].event_type] < _PRECEDENCE[selCands[j].event_type])
                => selBest # selCands[j]

\* C2 happens: TOKEN_ECONOMICS_SUPPLY_EVENTS (rank 19) is listed before
\* RWA_DEVELOPMENTS (rank 11), both 0.58/0.5, and RWA_DEVELOPMENTS is selected.
C2_Witness ==
    /\ selPc = "selected"
    /\ Len(selCands) = 2
    /\ selCands[1] = CandidateEvent("TOKEN_ECONOMICS_SUPPLY_EVENTS", 58, 50)
    /\ selCands[2] = CandidateEvent("RWA_DEVELOPMENTS", 58, 50)
    /\ _PRECEDENCE["RWA_DEVELOPMENTS"] = 11
    /\ _PRECEDENCE["TOKEN_ECONOMICS_SUPPLY_EVENTS"] = 19
    /\ selBest.event_type = "RWA_DEVELOPMENTS"

\* A text that is not blank, is at most MAX_TEXT_LENGTH characters long and comes
\* with a key that _require_api_key accepts.
WellFormed(r) ==
    /\ r.text.words # <<>>
    /\ TextLen(r.text) <= MAX_TEXT_LENGTH
    /\ r.auth = "ok"

\* C3: a /parse request with a non-blank text of at most 20,000 characters ends in a
\* 200 whose record has an event_type of the enumeration, never in an error response.
C3_ParseIsTotal ==
    (pc = "done" /\ WellFormed(req)) =>
        /\ resp.status = 200
        /\ resp.body # Nothing
        /\ resp.body[1].event_type \in EventType

\* C4: when no rule fires, select_primary_event returns MISC_OTHER 0.45/0.25 if the
\* text has a crypto cue or a recognised asset, and UNKNOWN 0.40/0.20 otherwise.
C4_FallbackCandidate ==
    (selPc = "selected" /\ selCands = <<>>) =>
        /\ selIdx = 0
        /\ selBest = IF \/ \E cue \in crypto_cues : Has(selText, cue)
                        \/ \E a \in Range(extract_assets(selText)) : a \in _ASSET_ALLOWLIST
                     THEN CandidateEvent("MISC_OTHER", 45, 25)
                     ELSE CandidateEvent("UNKNOWN", 40, 20)

\* C4 happens: no rule fires on a text that has no crypto cue but names an asset,
\* and MISC_OTHER is returned.
C4_Witness ==
    /\ selPc = "selected"
    /\ selCands = <<>>
    /\ ~(\E cue \in crypto_cues : Has(selText, cue))
    /\ extract_assets(selText) # <<>>
    /\ selBest = CandidateEvent("MISC_OTHER", 45, 25)

\* C5: refine() is called only for a configured provider, a request that is not
\* deterministic or a provider declaring supports_determinism, and a low-confidence
\* heuristic result; a deterministic request to a provider that does not declare it
\* never calls refine() and returns the heuristic event_type, assets and entities.
C5_RefineOnlyWhenAllowed ==
    LET heuristic == select_primary_event(req.text)
        unsupported == /\ provider.name # None
                       /\ provider.supports_determinism # "True"
                       /\ req.deterministic
    IN  /\ invoked =>
              /\ provider.name # None
              /\ ~req.deterministic \/ provider.supports_determinism = "True"
              /\ \/ heuristic.event_type \in {"UNKNOWN", "MISC_OTHER"}
                 \/ heuristic.confidence < 65
        /\ unsupported => ~invoked
        /\ (unsupported /\ pc = "done" /\ resp.status = 200) =>
              /\ resp.body[1].event_type = heuristic.event_type
              /\ resp.body[1].assets = extract_assets(req.text)
              /\ resp.body[1].entities = extract_entities(req.text)

\* C5 happens: a deterministic request with a low-confidence heuristic result was
\* answered with a provider configured whose supports_determinism is False.
C5_Witness ==
    /\ pc = "done"
    /\ resp.status = 200
    /\ req.deterministic
    /\ provider.name # None
    /\ provider.supports_determinism = "False"
    /\ low_confidence(select_primary_event(req.text))
    /\ ~invoked

\* C6: when refine() raises or times out, the request still ends in a 200 with the
\* heuristic event type, assets and entities.
C6_RefineFailureFailsOpen ==
    (pc = "done" /\ raised = "refine") =>
        /\ resp.status = 200
        /\ resp.body # Nothing
        /\ resp.body[1].event_type = select_primary_event(req.text).event_type
        /\ resp.body[1].assets = extract_assets(req.text)
        /\ resp.body[1].entities = extract_entities(req.text)

\* C7: a row is stored only for a record already built, and when store_parse_run
\* raises the response still carries the record built, as with persistence disabled.
C7_StoreFailureKeepsRecord ==
    /\ resp.parse_id # 0 =>
          /\ parsed # Nothing
          /\ parse_runs[resp.parse_id].response = parsed[1]
    /\ (pc = "done" /\ raised = "store") =>
          /\ resp.status = 200
          /\ resp.body = parsed

\* C8: when the refinement gives a list, the merged list starts with the heuristic
\* list as it was, continues with the refinement's values that the heuristic list
\* lacks, each once and ordered by first appearance in the refinement's list, and
\* is never shorter than the heuristic list.
C8_MergeKeepsPrefixAppendsNovel ==
    (mPc = "merged" /\ mExtra # Nothing) =>
        LET given == mExtra[1]
            rest == SubSeq(mOut, Len(mBase) + 1, Len(mOut))
            First(v) == CHOOSE i \in DOMAIN given :
                            given[i] = v /\ \A k \in 1 .. (i - 1) : given[k] # v
        IN  /\ Len(mOut) >= Len(mBase)
            /\ SubSeq(mOut, 1, Len(mBase)) = mBase
            /\ Range(rest) = Range(given) \ Range(mBase)
            /\ NoRepeat(rest)
            /\ \A i, j \in DOMAIN rest : i < j => First(rest[i]) < First(rest[j])

\* C8 happens: the refinement's list repeats a novel value and holds a value the
\* heuristic list has; the novel values are appended once each.
C8_Witness ==
    /\ mPc = "merged"
    /\ mBase = << "BTC" >>
    /\ mExtra = Some(<< "SOL", "BTC", "SOL" >>)
    /\ mOut = << "BTC", "SOL" >>

C10_SelectionIgnoresOrder ==
    selPc = "selected" =>
        /\ selBest = select_primary(selText, _candidates(selText))
        /\ selCands # <<>> =>
              /\ selBest = selCands[selIdx]
              /\ \A j \in 1 .. (selIdx - 1) :
                    \/ ~ScoreTie(selCands[j], selBest)
                    \/ _PRECEDENCE[selCands[j].event_type] # _PRECEDENCE[selBest.event_type]

\* C10 happens: a selection was made from two candidates tied on impact_score and
\* confidence, listed in the reverse of their generation order.
C10_Witness ==
    /\ selPc = "selected"
    /\ Len(selCands) = 2
    /\ LET generated == _candidates(selText)
       IN  selCands = << generated[2], generated[1] >>
    /\ selCands[1] # selCands[2]
    /\ ScoreTie(selCands[1], selCands[2])
    /\ selBest = selCands[2]

\* C11: whenever the security-incident rule fires (the text contains hack, exploit or
\* breach), its candidate has impact_score at least 0.9 and the event type selected is
\* SECURITY_INCIDENTS_EXPLOITS, whatever other rules fire with it.
C11_SecurityRuleWins ==
    LET fired == { i \in DOMAIN selCands :
                     selCands[i].event_type = "SECURITY_INCIDENTS_EXPLOITS" }
    IN  selPc \in {"generated", "selected", "refined"} =>
          /\ AnyIn(selText, {"hack", "exploit", "breach"}) => fired # {}
          /\ \A i \in fired : selCands[i].impact_score >= 90
          /\ (fired # {} /\ selPc # "generated") =>
                selBest.event_type = "SECURITY_INCIDENTS_EXPLOITS"

\* The regulatory rule, the next highest in both scores, fired with the security rule.
C11_Witness ==
    /\ selPc = "selected"
    /\ Has(selText, "hack")
    /\ \E i \in DOMAIN selCands :
          /\ selCands[i].event_type = "REGULATORY_ACTION_ENFORCEMENT"
          /\ selCands[i].impact_score = 85
    /\ selBest = CandidateEvent("SECURITY_INCIDENTS_EXPLOITS", 74, 90)

InUnitInterval(score) == score >= 0 /\ score <= 100

\* C12: confidence and impact_score lie in [0.0, 1.0] for every candidate of every
\* rule, for both fallback candidates, and after a refinement has replaced the
\* event type.
C12_ScoresInUnitInterval ==
    /\ \A i \in DOMAIN selCands :
          InUnitInterval(selCands[i].confidence) /\ InUnitInterval(selCands[i].impact_score)
    /\ InUnitInterval(selBest.confidence)
    /\ InUnitInterval(selBest.impact_score)

\* A refinement replaced the event type of a rule's candidate and the scores stayed.
C12_Witness ==
    /\ selPc = "refined"
    /\ selIdx > 0
    /\ selBest.event_type # selCands[selIdx].event_type
    /\ selBest.confidence = selCands[selIdx].confidence
    /\ selBest.impact_score = selCands[selIdx].impact_score
    /\ selBest.confidence > 0

\* C13: the assets list and the entities list of a response hold no value twice,
\* as the extractors return them and after a refinement's lists, which may repeat
\* values, were merged in.
C13_ListsWithoutDuplicates ==
    NoRepeat(fAssets) /\ NoRepeat(fEntities)

\* The text names an asset twice and an entity twice, and the refinement repeated a
\* value the text does not have.
C13_Witness ==
    /\ fPc = "refined"
    /\ fText.words = << "BlackRock said", "BlackRock" >>
    /\ fRefinement = Some([event_type |-> None, assets |-> Some(<< "DOGE", "DOGE" >>),
                            entities |-> Some(<< <<"BlackRock">>, <<"BlackRock">> >>)])
    /\ fEntities = << <<"BlackRock">> >>
    /\ fAssets = << "DOGE" >>

\* the tickers a phrase mentions, by name or as an allowlisted ticker
AssetMentions(phrase) ==
    { _ASSET_NAME_PATTERNS[k] : k \in { j \in DOMAIN _ASSET_NAME_PATTERNS :
                                          <<j, phrase>> \in NameHits } }
        \cup (Range(TickerTokens[phrase]) \cap _ASSET_ALLOWLIST)

\* the position in the text of the first phrase that mentions the ticker
FirstMention(text, ticker) ==
    CHOOSE i \in DOMAIN text.words :
        /\ ticker \in AssetMentions(text.words[i])
        /\ \A j \in 1 .. (i - 1) : ticker \notin AssetMentions(text.words[j])

AssetsInFirstSeenOrder ==
    \A p, q \in DOMAIN fAssets :
        FirstMention(fText, fAssets[p]) < FirstMention(fText, fAssets[q]) => p < q

\* the position among the text's tokens where the entity's phrase first starts
FirstStart(tokens, entity) ==
    CHOOSE i \in DOMAIN tokens :
        /\ i + Len(entity) - 1 <= Len(tokens)
        /\ SubSeq(tokens, i, i + Len(entity) - 1) = entity
        /\ \A j \in 1 .. (i - 1) :
              ~(j + Len(entity) - 1 <= Len(tokens)
                  /\ SubSeq(tokens, j, j + Len(entity) - 1) = entity)

EntitiesInFirstSeenOrder ==
    LET tokens == Tokens(fText.words)
    IN  \A p, q \in DOMAIN fEntities :
            FirstStart(tokens, fEntities[p]) < FirstStart(tokens, fEntities[q]) => p < q

\* C14: the assets list and the entities list keep the order in which each value is
\* first mentioned in the text, for assets whether the mention is a name or a ticker.
C14_ListsInFirstSeenOrder ==
    fPc \in {"assets", "entities", "jurisdiction", "sentiment"} =>
        /\ AssetsInFirstSeenOrder
        /\ fPc # "assets" => EntitiesInFirstSeenOrder

\* the subtype labels returned under an event type, over the texts of the bound
SubtypeLabels ==
    [e \in EventType |-> { infer_event_subtype(t, e) : t \in SubtypeTexts } \ { None }]

\* C16: each subtype label infer_event_subtype returns belongs to one event type: no
\* label is returned under two different event types.
C16_SubtypeHasOneEventType ==
    (fPc \in {"subtype", "legacy"} /\ fSubtype # None) =>
        \A e \in EventType \ { fType } : fSubtype \notin SubtypeLabels[e]

issuance_language ==
    { "launch", "launched", "launches", "introduced", "issuance", "issue", "issued",
      "issues", "mint", "minted", "supply" }

\* C17: the legacy mapping gives STABLECOIN_ISSUANCE only for a text with
\* issuance-like language, and gives UNKNOWN for every UNKNOWN or MISC_OTHER event.
C17_LegacyMappingConservative ==
    fPc = "legacy" =>
        /\ fLegacy = "STABLECOIN_ISSUANCE" => AnyIn(fText, issuance_language)
        /\ fType \in {"UNKNOWN", "MISC_OTHER"} => fLegacy = "UNKNOWN"

\* the steps of the enforcement cascade in their order: the label, and the cues
\* (the lawsuit step is a regex search, the others are substring tests)
EnforcementSteps ==
    << [label |-> "regulation.enforcement.lawsuit",
        regex |-> { "\\b(lawsuit|sue|sues|sued)\\b" }, cues |-> {}],
       [label |-> "regulation.enforcement.fine",
        regex |-> {}, cues |-> {"fine", "penalty", "fined", "civil penalty"}],
       [label |-> "regulation.enforcement.settlement",
        regex |-> {}, cues |-> {"settlement", "settled"}],
       [label |-> "regulation.restriction",
        regex |-> {}, cues |-> {"ban", "banned", "prohibit", "prohibited", "restriction"}],
       [label |-> "regulation.enforcement.investigation",
        regex |-> {}, cues |-> {"investigation", "probe"}],
       [label |-> "regulation.enforcement.cease_and_desist",
        regex |-> {}, cues |-> {"cease and desist", "cease-and-desist", "c&d"}] >>

StepMatches(text, k) ==
    \/ \E rx \in EnforcementSteps[k].regex : Search(text, rx)
    \/ AnyIn(text, EnforcementSteps[k].cues)

\* C18: under REGULATORY_ACTION_ENFORCEMENT the subtype is that of the first step, in
\* the order lawsuit, fine, settlement, restriction, investigation, cease-and-desist,
\* whose cues the text has, and None when it has none; under UNKNOWN it is None.
C18_EnforcementCascade ==
    fPc \in {"subtype", "legacy"} =>
        /\ fType = "REGULATORY_ACTION_ENFORCEMENT" =>
              LET matching == { k \in DOMAIN EnforcementSteps : StepMatches(fText, k) }
              IN  IF matching = {} THEN fSubtype = None
                  ELSE \E k \in matching :
                          /\ \A j \in matching : k <= j
                          /\ fSubtype = EnforcementSteps[k].label
        /\ fType = "UNKNOWN" => fSubtype = None

\* A text with a lawsuit cue after a fine cue, under the enforcement event type.
C18_Witness ==
    /\ fPc = "subtype"
    /\ fType = "REGULATORY_ACTION_ENFORCEMENT"
    /\ fText.words = << "SEC fined", "lawsuit" >>
    /\ fSubtype = "regulation.enforcement.lawsuit"

\* C15: resolve_jurisdiction returns the first bucket, in the order US, EUROPE,
\* AMERICAS_NON_US, ASIA, OCEANIA, AFRICA, whose cue-set matches the text, and GLOBAL
\* for a text with no cue of any bucket, also when the text names assets or entities.
C15_FirstBucketWins ==
    fPc \in {"jurisdiction", "sentiment", "refined"} =>
        LET matching == { k \in DOMAIN JurisdictionCues : CueSetMatches(fText, k) }
        IN  /\ [k \in DOMAIN JurisdictionCues |-> JurisdictionCues[k].bucket]
                 = << "US", "EUROPE", "AMERICAS_NON_US", "ASIA", "OCEANIA", "AFRICA" >>
            /\ IF matching = {} THEN fJurisdiction = "GLOBAL"
               ELSE \E k \in matching :
                       /\ \A j \in matching : k <= j
                       /\ fJurisdiction = JurisdictionCues[k].bucket

\* A text with cues of two buckets got the earlier one although the later bucket's cue
\* comes first in the text.
C15_Witness ==
    /\ fPc = "jurisdiction"
    /\ fText.words = << "Japan", "EU" >>
    /\ fJurisdiction = "EUROPE"

negative_cues == {"hack", "exploit", "lawsuit", "charges", "indict", "ban", "depeg"}

positive_cues == {"approval", "approved", "inflows", "record", "surge", "partnership"}

\* C19: a text with a negative cue is negative even if it has positive cues too, a
\* text with positive cues only is positive, and a text with neither is neutral.
C19_NegativeBeforePositive ==
    fPc \in {"sentiment", "refined"} =>
        /\ AnyIn(fText, negative_cues) => fSentiment = "negative"
        /\ (AnyIn(fText, positive_cues) /\ ~AnyIn(fText, negative_cues)) =>
              fSentiment = "positive"
        /\ (~AnyIn(fText, positive_cues) /\ ~AnyIn(fText, negative_cues)) =>
              fSentiment = "neutral"

\* A text with a positive cue first and a negative cue after it.
C19_Witness ==
    /\ fPc = "sentiment"
    /\ fText.words = << "partnership", "hack" >>
    /\ fSentiment = "negative"

\* C20: every value extract_assets returns is in the ticker allowlist, upper-case
\* tokens outside it are not returned, and every name pattern maps to an allowlisted
\* ticker.
C20_AssetsAllowlisted ==
    /\ Range(_ASSET_NAME_PATTERNS) \subseteq _ASSET_ALLOWLIST
    /\ fPc \in {"assets", "entities", "jurisdiction", "sentiment"} =>
          Range(fAssets) \subseteq _ASSET_ALLOWLIST

\* A text with a regulator's acronym and a ticker: only the ticker is returned.
C20_Witness ==
    /\ fPc = "assets"
    /\ \E i \in DOMAIN fText.words :
          Range(TickerTokens[fText.words[i]]) \ _ASSET_ALLOWLIST # {}
    /\ fAssets = << "BTC" >>

\* What C21 promises of a Receive step that takes the request r: an error envelope
\* with one of the statuses given, no record, no refine() call, no row stored.
RejectedWith(statuses) ==
    /\ pc' = "done"
    /\ resp'.status \in statuses
    /\ resp'.code # None
    /\ resp'.body = Nothing
    /\ resp'.parse_id = 0
    /\ ~invoked'
    /\ parse_runs' = parse_runs

\* C21 as stated: every /parse request whose text as sent is empty, only whitespace
\* or longer than 20,000 characters is answered with an error envelope of status
\* 422 or 413, without a record, a refine() call or a stored row.
C21_AsStated ==
    [][(pc = "idle" /\ pc' # "idle"
            /\ (BlankText(req'.raw) \/ RawLen(req'.raw) > MAX_TEXT_LENGTH))
          => RejectedWith({422, 413})]_vars

\* C21: a /parse request whose text is empty or only whitespace is answered 422
\* INVALID_REQUEST; one whose text without the surrounding whitespace is longer than
\* 20,000 characters is answered 401 or 403 when the API key check fails and 413
\* otherwise; in each case with an error envelope, without a record, a refine() call
\* or a stored row.  A text longer than 20,000 characters only by its surrounding
\* whitespace is parsed as usual.
C21_RejectsBlankAndOversize ==
    [][(pc = "idle" /\ pc' # "idle") =>
          LET r == req'
          IN  /\ BlankText(r.raw) =>
                    RejectedWith({422}) /\ resp'.code = "INVALID_REQUEST"
              /\ (~BlankText(r.raw) /\ TextLen(strip(r.raw)) > MAX_TEXT_LENGTH) =>
                    RejectedWith(CASE r.auth = "ok"      -> {413}
                                   [] r.auth = "missing" -> {401}
                                   [] r.auth = "invalid" -> {403})
              /\ (~BlankText(r.raw) /\ TextLen(strip(r.raw)) <= MAX_TEXT_LENGTH
                     /\ r.auth = "ok") => pc' # "done"]_vars

\* C21 happens: a request with the right key whose text is one character too long
\* was answered 413 without a record or a refine() call.
C21_Witness ==
    /\ pc = "done"
    /\ req.auth = "ok"
    /\ TextLen(req.text) = MAX_TEXT_LENGTH + 1
    /\ resp = ErrorResponse(413, "PAYLOAD_TOO_LARGE")
    /\ ~invoked
    /\ parsed = Nothing

\* C27: in every 200 of /parse the event_subtype, the topics and the legacy event
\* type are those of the event_type returned, which is the one after any override by
\* the refinement; no response carries a classification before the refinement step
\* of its request is over.
C27_FieldsOfReturnedType ==
    /\ (pc = "done" /\ resp.status = 200) =>
          LET body == resp.body[1]
          IN  /\ body.event_type = cur.primary.event_type
              /\ body.event_subtype = infer_event_subtype(req.text, body.event_type)
              /\ body.topics = Topics(body.event_type)
              /\ body.v1_event_type = infer_v1_event_type(req.text, body.event_type)
    /\ pc = "refining" => parsed = Nothing /\ resp.body = Nothing

\* C27 happens: the refinement replaced the heuristic event type, and the response
\* carries the subtype and topics of the new type, which are not those of the old.
C27_Witness ==
    LET heuristic == select_primary_event(req.text).event_type
    IN  /\ pc = "done"
        /\ resp.status = 200
        /\ cur.refinement # Nothing
        /\ resp.body[1].event_type # heuristic
        /\ resp.body[1].event_subtype = infer_event_subtype(req.text, resp.body[1].event_type)
        /\ resp.body[1].event_subtype # infer_event_subtype(req.text, heuristic)
        /\ resp.body[1].topics # Topics(heuristic)

\* The cue words of the security rule and of the protocol-upgrade rule of _candidates.
security_cues == {"hack", "exploit", "breach", "bug", "drained", "compromised"}

upgrade_cues == {"upgrade", "hard fork", "fork", "consensus", "parameter change",
                 "mainnet upgrade"}

\* The subtype labels security.exchange_hack.* and protocol.upgrade.*
HackOrUpgradeLabels ==
    { "security.exchange_hack.breach", "security.exchange_hack.exploit",
      "security.exchange_hack.hack", "protocol.upgrade.hard_fork",
      "protocol.upgrade.mainnet", "protocol.upgrade.upgrade" }

\* C26 as stated: a text whose only event cue is a hard fork (the upgrade rule is
\* the one rule that fires on it) is classified MISC_OTHER with the subtype
\* protocol.upgrade.hard_fork.
C26_HardForkIsMiscOther ==
    (/\ selPc = "selected"
     /\ Has(selText, "hard fork")
     /\ selCands = << CandidateEvent("PROTOCOL_UPGRADES_NETWORK_CHANGES", 62, 60) >>) =>
        /\ selBest.event_type = "MISC_OTHER"
        /\ infer_event_subtype(selText, selBest.event_type) = "protocol.upgrade.hard_fork"

Resolves(parse_id, runs) == parse_id # Nothing /\ parse_id[1] \in DOMAIN runs

\* C22 as stated: a /feedback request with the right key, persistence enabled and
\* the parse_id of a stored parse run is answered 200 with status "stored" and a
\* positive feedback_id, and export_feedback_cases then holds the case of that
\* feedback, with the text of the parse run and the corrected fields sent; when the
\* table was empty before, the export is that one case.
C22_FeedbackAcceptedAndExported ==
    (/\ fbOut.op = "feedback"
     /\ fbCall.auth = "ok"
     /\ persistence
     /\ Resolves(fbCall.parse_id, parse_runs)) =>
        /\ fbOut.resp.status = 200
        /\ fbOut.resp.body # Nothing
        /\ fbOut.resp.body[1].status = "stored"
        /\ fbOut.resp.body[1].feedback_id > 0
        /\ LET fid == fbOut.resp.body[1].feedback_id
               case == [id |-> CaseId(fid), text |-> parse_runs[fbCall.parse_id[1]].text,
                        expected |-> fbCall.expected]
               cases == export_feedback_cases(feedback)
           IN  /\ \E k \in DOMAIN cases : cases[k] = case
               /\ Len(feedback) = 1 => cases = << case >>

\* A store_feedback call whose parse_id names no stored run raises the not-found
\* error and inserts nothing.
NotFoundAtStore ==
    (/\ fbCall'.op = "store_feedback"
     /\ fbCall'.parse_id # Nothing
     /\ ~Resolves(fbCall'.parse_id, parse_runs)) =>
        /\ fbOut'.raised = "ValueError"
        /\ fbOut'.message = "parse_id not found"
        /\ feedback' = feedback

\* A /feedback request whose parse_id names no stored run, sent with the right key
\* and persistence enabled, is answered 422 INVALID_REQUEST and inserts nothing.
NotFoundAtEndpoint ==
    (/\ fbCall'.op = "feedback"
     /\ fbCall'.auth = "ok"
     /\ persistence
     /\ fbCall'.parse_id # Nothing
     /\ ~Resolves(fbCall'.parse_id, parse_runs)) =>
        /\ fbOut'.resp = ErrorResponse(422, "INVALID_REQUEST")
        /\ feedback' = feedback

\* C23 as stated: store_feedback with a parse_id that names no stored parse run
\* fails with the not-found error and inserts no row, and /feedback answers such a
\* request with a structured 422.
C23_UnknownParseIdRejected == [][NotFoundAtStore /\ NotFoundAtEndpoint]_vars

\* The rows of the table that hold a text that is not empty.
Exportable(table) ==
    { i \in DOMAIN table : table[i].text # Nothing /\ table[i].text[1].words # <<>> }

\* cases is one case per exportable row of the table, in ascending row id, each with
\* the id, the text and the corrected fields of its row.
ExportIsExact(cases, table) ==
    /\ Len(cases) = Cardinality(Exportable(table))
    /\ \A k \in DOMAIN cases :
          \E i \in Exportable(table) :
              cases[k] = [id |-> CaseId(i), text |-> table[i].text[1],
                          expected |-> table[i].expected_json.members]
    /\ \A k, l \in DOMAIN cases : k < l => cases[k].id[2] < cases[l].id[2]

\* C24: export_feedback_cases returns, in ascending feedback id, exactly one case
\* (id, text, expected) for each feedback row that holds a non-empty text, skips the
\* rows without text, and leaves the feedback table as it was.
C24_ExportExactAndReadOnly ==
    [][fbCall'.op = "export_feedback_cases" =>
          /\ feedback' = feedback
          /\ ExportIsExact(fbOut'.cases, feedback)]_vars

\* C24 happens: the table holds a feedback given with an input_id only and, after
\* it, one given with the parse_id of a stored run; the export is the one case of
\* the second row.
C24_Witness ==
    /\ fbOut.op = "export_feedback_cases"
    /\ Len(feedback) = 2
    /\ feedback[1].parse_run_id = Nothing
    /\ feedback[1].text = Nothing
    /\ feedback[2].parse_run_id = Some(1)
    /\ Len(fbOut.cases) = 1
    /\ fbOut.cases[1].id = CaseId(2)
    /\ fbOut.cases[1].text = parse_runs[1].text
    /\ fbOut.cases[1].expected # <<>>

\* C25 as stated: when the page fetched for /parse_url yields no text, the request
\* is answered 422 INVALID_REQUEST, without a record and without a stored run.
C25_EmptyPageIs422 ==
    (urlPc = "done" /\ fetched.kind = "FetchResult" /\ BlankText(fetched.text)) =>
        /\ urlResp.status = 422
        /\ urlResp.code = "INVALID_REQUEST"
        /\ urlResp.body = Nothing
        /\ urlResp.parse_id = 0

\* The classes of fetch.py that are FetchError or derive from it.
FetchErrors ==
    { "FetchError", "FetchBlockedError", "FetchTooLargeError", "FetchTimeoutError",
      "FetchUnsupportedContentTypeError" }

\* The safety part of C30.
FetchLoopSafe ==
    /\ Len(requested) <= _MAX_REDIRECTS + 1
    /\ redirects <= _MAX_REDIRECTS + 1
    /\ redirects > _MAX_REDIRECTS =>
          urlPc = "done" /\ fetched = Raise("FetchError", "Too many redirects")
    /\ \A i \in DOMAIN requested : validate_url_for_fetch(requested[i]) = NoOutcome
    /\ urlPc = "fetching" => validate_url_for_fetch(current) = NoOutcome
    /\ (urlPc = "fetching" /\ redirects > 0) => Len(requested) = redirects
    /\ (urlPc = "done" /\ urlReq.auth = "ok") =>
          fetched.kind \in {"FetchResult"} \cup FetchErrors

RowsOf(i) == { k \in DOMAIN storedBy : storedBy[k] = i }

\* Request i was answered 200.
Succeeded(i) == clients[i].pc = "done" /\ clients[i].resp.status = 200

\* C29: with persistence enabled and requests interleaved in any way, each request
\* answered 200 has inserted exactly one row of parse_runs and carries the id of that
\* row in X-Parse-Id; the row holds the text and the record of that request; two
\* requests never carry the same id; and the table has one row per insert.
C29_OneRunPerRequest ==
    persistence =>
        /\ Len(parse_runs) = Len(storedBy)
        /\ \A i \in Clients :
              Succeeded(i) =>
                  /\ RowsOf(i) = { clients[i].resp.parse_id }
                  /\ parse_runs[clients[i].resp.parse_id] =
                        [text |-> clients[i].text, response |-> clients[i].resp.body[1]]
        /\ \A i, j \in Clients :
              (Succeeded(i) /\ Succeeded(j) /\ i # j) =>
                  clients[i].resp.parse_id # clients[j].resp.parse_id
        /\ \A i \in Clients : Cardinality(RowsOf(i)) <= 1

\* C29 happens: request 2 arrived first and waited for the provider, request 1
\* arrived with another text and stored its run first; both were answered 200, with
\* ids 1 and 2, and each row holds the text of its own request.
C29_Witness ==
    /\ persistence
    /\ Succeeded(1)
    /\ Succeeded(2)
    /\ storedBy = << 1, 2 >>
    /\ clients[1].resp.parse_id = 1
    /\ clients[2].resp.parse_id = 2
    /\ clients[1].text # clients[2].text
    /\ clients[2].resp.body[1].event_type # select_primary_event(clients[2].text).event_type
    /\ parse_runs[2].text = clients[2].text

====
